---- MODULE Spec2Model ----
(***************************************************************************)
(* Second-Brain bot: the agentic capture handler (handleCapture), the      *)
(* thread-update handler (handleThreadUpdate), the listener routing of     *)
(* initApp, and the Notion / Slack service methods they call.              *)
(*                                                                         *)
(* One behaviour is the processing of one inbound Slack event against a    *)
(* record store drawn from a bounded set of initial stores.  Every await   *)
(* of the handlers is one step; every call of an external client (Slack    *)
(* Web API, Notion API, Gemini API) may succeed or fail.                   *)
(***************************************************************************)
EXTENDS Integers, Sequences, FiniteSets, TLC

(***************************************************************************)
(* Program constants                                                       *)
(***************************************************************************)
MAX_CALLS == 5

PAGE_SIZE == 15

(***************************************************************************)
(* Bounds of the model                                                     *)
(***************************************************************************)
\* largest number of tool calls in one provider response
MaxBatch == 2

\* largest number of records the store holds
MaxPages == 1

\* largest number of notes appended to one record
MaxNotes == 1

(***************************************************************************)
(* Values                                                                  *)
(***************************************************************************)
\* strings that are searched or compared by content are sequences of characters
ALL == <<"a", "l", "l">>

EVERYTHING == <<"e", "v", "e", "r", "y", "t", "h", "i", "n", "g">>

EVERYONE == <<"e", "v", "e", "r", "y", "o", "n", "e">>

WORK == <<"W", "o", "r", "k">>

EMPTY == <<>>

Titles == {<<"a">>}

Queries == {<<"a">>, ALL}

\* thread_ts of an event that is no thread reply (undefined in the source)
NoTs == 0

\* ts of an earlier message, whose thread the inbound event may reply to
OldTs == 1

\* ts of the inbound event
NewTs == 2

\* pageId of "no record" (null in the source)
NoPage == 0

PageIds == 1..MaxPages

ToolNames == {"search_tasks", "create_task", "update_task_status", "archive_tasks", "add_task_note"}

UnknownToolName == "frobnicate"

Statuses == {"Todo", "In Progress", "Done"}

Actions == {"completed", "in_progress", "detail", "rescheduled", "deleted", "unchanged"}

(***************************************************************************)
(* Pure helpers                                                            *)
(***************************************************************************)
\* String.prototype.includes / Notion's "contains" on character sequences
Contains(hay, needle) ==
    \E i \in 0..(Len(hay) - Len(needle)) : SubSeq(hay, i + 1, i + Len(needle)) = needle

LowerChar(c) ==
    CASE c = "A" -> "a" [] c = "L" -> "l" [] c = "W" -> "w" [] c = "D" -> "d"
      [] c = "B" -> "b" [] OTHER -> c

ToLowerCase(s) == [i \in 1..Len(s) |-> LowerChar(s[i])]

\* the members of the set S of numbers among 1..n, in ascending order
RECURSIVE AscSeq(_, _)
AscSeq(S, n) ==
    IF n = 0 THEN <<>>
    ELSE IF n \in S THEN Append(AscSeq(S, n - 1), n)
         ELSE AscSeq(S, n - 1)

Take(s, n) == IF Len(s) <= n THEN s ELSE SubSeq(s, 1, n)

(***************************************************************************)
(* The record store (NotionService over the Notion API)                    *)
(***************************************************************************)
\* createPageFromThought: the properties of the page it creates
NewPage(title, category, sig, ts) ==
    [title |-> title, summary |-> EMPTY, category |-> category, dueDate |-> "",
     status |-> "Todo", assignee |-> EMPTY, sig |-> sig, threadTS |-> ts, archived |-> FALSE]

\* searchTasks: the broad-search test on the query
IsBroadSearch(query) ==
    LET queryLower == ToLowerCase(query)
    IN  queryLower = EMPTY \/ queryLower = ALL \/ queryLower = EVERYTHING
        \/ queryLower = EVERYONE

\* searchTasks: the filter sent to databases.query, applied to one page
SearchFilter(page, query) ==
    IF IsBroadSearch(query)
    THEN page.status # "Done"
    ELSE Contains(page.title, query) \/ Contains(page.assignee, query)
         \/ page.category = query

\* searchTasks when databases.query answers: the matching pages that are not
\* archived (the Notion API does not return archived pages), at most page_size
SearchTasks(ps, query) ==
    Take(AscSeq({i \in DOMAIN ps : ~ps[i].archived /\ SearchFilter(ps[i], query)}, Len(ps)),
         PAGE_SIZE)

\* findPageByThreadTS / findPageByThreadTSFallback when the query answers:
\* the first page whose SlackThreadTS equals the key, or null
QueryByThreadTS(ps, threadTS) ==
    LET hits == AscSeq({i \in DOMAIN ps : ~ps[i].archived /\ ps[i].threadTS = threadTS}, Len(ps))
    IN  IF Len(hits) = 0 THEN NoPage ELSE hits[1]

\* updatePageStatus: pages.update of the Status property
UpdatePageStatus(ps, pageId, status) == [ps EXCEPT ![pageId].status = status]

\* UpdatedSummary when the note replaces the summary
UpdatedSummary_Replaces(currentSummary, note) == <<note>>

\* appendNote: the summary written back
UpdatedSummary(currentSummary, note) ==
    IF currentSummary # EMPTY THEN currentSummary \o <<"[Update]", note>> ELSE <<note>>

AppendNote(ps, pageId, note) ==
    [ps EXCEPT ![pageId].summary = UpdatedSummary(ps[pageId].summary, note)]

\* updateDueDate: pages.update of the "Due Date" property
UpdateDueDate(ps, pageId, dueDate) == [ps EXCEPT ![pageId].dueDate = dueDate]

\* findPageByThreadTS: the sub-resource query when an identifier was discovered
\* and that query answers (newOk), otherwise findPageByThreadTSFallback, which
\* returns null when its query throws (not oldOk)
FindPageByThreadTS(ps, threadTS, dsId, newOk, oldOk) ==
    IF dsId # "" /\ newOk THEN QueryByThreadTS(ps, threadTS)
    ELSE IF oldOk THEN QueryByThreadTS(ps, threadTS) ELSE NoPage

\* archivePage: the record is soft-deleted
ArchivePage(ps, pageId) == [ps EXCEPT ![pageId].archived = TRUE]

\* the room the model leaves for one more note on a page
NoteFits(ps, pageId) == Len(ps[pageId].summary) < 2 * MaxNotes - 1

\* a Notion call on a page id succeeds only for a record of the store
PageExists(ps, pageId) == pageId \in DOMAIN ps

\* discoverDataSource: the identifier it returns, given the cached one and the
\* outcome of databases.retrieve ("found": data_sources is not empty, "none":
\* it is empty, "fail": the call throws)
DiscoveryOutcomes == {"found", "none", "fail"}

DiscoverDataSource(cached, outcome) ==
    IF cached # "" THEN cached
    ELSE IF outcome = "found" THEN "ds1" ELSE ""

(***************************************************************************)
(* Tool calls, tool results and provider responses                         *)
(***************************************************************************)
Call(name, str, pageId, status) ==
    [name |-> name, str |-> str, pageId |-> pageId, status |-> status]

ToolCalls ==
    {Call("search_tasks", q, NoPage, "") : q \in Queries}
    \cup {Call("create_task", t, NoPage, "") : t \in Titles}
    \cup {Call("update_task_status", EMPTY, p, "Done") : p \in PageIds}
    \cup {Call("archive_tasks", q, NoPage, "") : q \in Queries}
    \cup {Call("add_task_note", <<"n">>, p, "") : p \in PageIds}
    \cup {Call(UnknownToolName, EMPTY, NoPage, "")}

Batches == UNION {[1..n -> ToolCalls] : n \in 0..MaxBatch}

Texts == {"", "answer"}

\* a provider response: response.functionCalls() and response.text()
Responses == [calls : Batches, text : Texts]

NoResponse == [calls |-> <<>>, text |-> ""]

Result(kind, tasks, pageId, count, error) ==
    [kind |-> kind, tasks |-> tasks, pageId |-> pageId, count |-> count, error |-> error]

\* { tasks }
TasksResult(tasks) == Result("tasks", tasks, NoPage, 0, "")

\* { success: true, pageId, url }
CreatedResult(pageId) == Result("created", <<>>, pageId, 0, "")

\* { success: true }
SuccessResult == Result("success", <<>>, NoPage, 0, "")

\* { success: true, archivedCount }
ArchivedResult(count) == Result("archived", <<>>, NoPage, count, "")

\* ErrorResult when the caught error is dropped
ErrorResult_Masked(message) == Result("success", <<>>, NoPage, 0, "")

\* { error: message }
ErrorResult(message) == Result("error", <<>>, NoPage, 0, message)

(***************************************************************************)
(* State                                                                   *)
(***************************************************************************)
VARIABLES
    pages,              \* the Notion database: sequence of pages, the page id is the index
    dataSourceId,       \* NotionService.dataSourceId ("" is null)
    pc,                 \* position of the handler that processes the event
    inbound,            \* the Slack event as it reaches a listener of initApp
    handler,            \* the handler the listener calls
    event,              \* the SlackMessageEvent the handler destructures
    outcome,            \* "none" while running, then "returned", "thrown" or "ignored"
    response,           \* handleCapture: response
    callCount,          \* handleCapture: callCount
    functionCalls,      \* handleCapture: functionCalls
    functionResponses,  \* handleCapture: functionResponses
    callIdx,            \* handleCapture: number of the iteration of the for loop over functionCalls
    tasksToArchive,     \* handleCapture: tasksToArchive
    archIdx,            \* handleCapture: position of the archive loop in tasksToArchive
    task,               \* handleThreadUpdate: task (a page id, NoPage is null)
    updateResult,       \* handleThreadUpdate: updateResult
    opLog,              \* the store calls made for the current batch of tool calls
    posted,             \* number of new messages chat.postMessage has delivered
    updateText,         \* text of the latest updateMessage call
    finalDelivered,     \* the final updateMessage reached the status message
    providerTurns,      \* number of provider turns that were answered
    failureMsgs,        \* number of failure messages delivered to the user
    warnMsgs,           \* number of warning messages delivered to the user
    storeCalled,        \* a NotionService method was called for this event
    providerCalled,     \* a GeminiService method was called for this event
    gatewayCalled,      \* a SlackService method was called for this event
    svcCall,            \* the call of a GeminiService / NotionService method under study: its arguments
    svcResult,          \* what that call returned
    geminiResponse,     \* handleCapture (multi-extraction version): geminiResponse
    extIdx              \* handleCapture (multi-extraction version): position of the for loop over extractions

storeVars == <<pages, dataSourceId>>

ctlVars == <<inbound, handler, event>>

loopVars == <<response, callCount, functionCalls, functionResponses, callIdx, tasksToArchive,
             archIdx, opLog>>

threadVars == <<task, updateResult>>

msgVars == <<posted, updateText, finalDelivered, failureMsgs, warnMsgs>>

flagVars == <<storeCalled, providerCalled, gatewayCalled>>

pureVars == <<svcCall, svcResult>>

legacyVars == <<geminiResponse, extIdx>>

vars == <<pages, dataSourceId, pc, inbound, handler, event, outcome, response, callCount,
          functionCalls, functionResponses, callIdx, tasksToArchive, archIdx, task, updateResult,
          opLog, posted, updateText, finalDelivered, providerTurns, failureMsgs, warnMsgs,
          storeCalled, providerCalled, gatewayCalled, svcCall, svcResult, geminiResponse,
          extIdx>>

(***************************************************************************)
(* Initial state: a fresh process in front of a store that holds the       *)
(* records of earlier captures                                             *)
(***************************************************************************)
OldPages ==
    {[NewPage(<<"b">>, WORK, sig, OldTs) EXCEPT !.status = st] :
        sig \in {"", "sig0"}, st \in {"Todo", "Done"}}

InitialStores == {<<>>} \cup {<<p>> : p \in OldPages}

NoInbound ==
    [listener |-> "", thread_ts |-> NoTs, bot_id |-> FALSE, subtype |-> "",
     hasText |-> FALSE, channel_type |-> "", trigger |-> FALSE]

NoUpdateResult == [action |-> "", note |-> FALSE, due_date |-> FALSE]

NoCall == [op |-> "none"]

NoResult == [kind |-> "none"]

NoGeminiResponse == [extractions |-> <<>>, thought_signature |-> ""]

Init ==
    /\ pages \in InitialStores
    /\ dataSourceId = ""
    /\ pc = "idle"
    /\ inbound = NoInbound
    /\ handler = ""
    /\ event = [ts |-> NewTs, thread_ts |-> NoTs]
    /\ outcome = "none"
    /\ response = NoResponse
    /\ callCount = 0
    /\ functionCalls = <<>>
    /\ functionResponses = <<>>
    /\ callIdx = 0
    /\ tasksToArchive = <<>>
    /\ archIdx = 0
    /\ task = NoPage
    /\ updateResult = NoUpdateResult
    /\ opLog = <<>>
    /\ posted = 0
    /\ updateText = ""
    /\ finalDelivered = FALSE
    /\ providerTurns = 0
    /\ failureMsgs = 0
    /\ warnMsgs = 0
    /\ storeCalled = FALSE
    /\ providerCalled = FALSE
    /\ gatewayCalled = FALSE
    /\ svcCall = NoCall
    /\ svcResult = NoResult
    /\ geminiResponse = NoGeminiResponse
    /\ extIdx = 0

(***************************************************************************)
(* initApp: the listeners and the handler each calls                       *)
(***************************************************************************)
\* "handleCapture" and "handleThreadUpdate" stand for a direct call of the
\* exported handler; trigger: the text is one of the "test morning" /
\* "test nightly" triggers
InboundEvents ==
    [listener : {"app_mention", "message", "handleCapture", "handleThreadUpdate"},
     thread_ts : {NoTs, OldTs},
     bot_id : BOOLEAN,
     subtype : {"", "bot_message", "message_changed", "file_share"},
     hasText : BOOLEAN,
     channel_type : {"im", "channel"},
     trigger : BOOLEAN]

\* app.event("app_mention", ...)
RouteMention(e) ==
    IF e.trigger THEN "briefing"
    ELSE IF e.thread_ts # NoTs THEN "handleThreadUpdate" ELSE "handleCapture"

\* RouteMessage when every message is taken for a new capture
RouteMessage_AlwaysCapture(e) ==
    IF e.subtype = "bot_message" \/ e.bot_id \/ e.subtype = "message_changed" THEN "none"
    ELSE IF ~e.hasText THEN "none"
    ELSE IF e.trigger THEN "briefing"
    ELSE IF e.channel_type = "im" \/ e.subtype = "" THEN "handleCapture"
         ELSE "none"

\* RouteMessage when messages of bots and message edits are not skipped
RouteMessage_NoBotFilter(e) ==
    IF ~e.hasText THEN "none"
    ELSE IF e.trigger THEN "briefing"
    ELSE IF e.channel_type = "im" \/ e.subtype = ""
         THEN IF e.thread_ts # NoTs THEN "handleThreadUpdate" ELSE "handleCapture"
         ELSE "none"

\* app.message(...)
RouteMessage(e) ==
    IF e.subtype = "bot_message" \/ e.bot_id \/ e.subtype = "message_changed" THEN "none"
    ELSE IF ~e.hasText THEN "none"
    ELSE IF e.trigger THEN "briefing"
    ELSE IF e.channel_type = "im" \/ e.subtype = ""
         THEN IF e.thread_ts # NoTs THEN "handleThreadUpdate" ELSE "handleCapture"
         ELSE "none"

Route(e) ==
    CASE e.listener = "app_mention" -> RouteMention(e)
      [] e.listener = "message" -> RouteMessage(e)
      [] OTHER -> e.listener

\* an event reaches a listener
Receive ==
    /\ pc = "idle"
    /\ \E e \in InboundEvents :
        /\ inbound' = e
        /\ handler' = Route(e)
    /\ pc' = "routed"
    /\ UNCHANGED <<pureVars, legacyVars, storeVars, event, outcome, loopVars, threadVars, msgVars, providerTurns, flagVars>>

\* the listener calls the handler with the SlackMessageEvent it builds
Dispatch ==
    /\ pc = "routed"
    /\ event' = [ts |-> NewTs, thread_ts |-> inbound.thread_ts]
    /\ inbound' = NoInbound
    /\ IF handler = "handleCapture" THEN pc' = "hc_entry" /\ outcome' = outcome
       ELSE IF handler = "handleThreadUpdate" THEN pc' = "tu_entry" /\ outcome' = outcome
       ELSE pc' = "done" /\ outcome' = "ignored"
    /\ UNCHANGED <<pureVars, legacyVars, storeVars, handler, loopVars, threadVars, msgVars, providerTurns, flagVars>>

(***************************************************************************)
(* The chat gateway (SlackService over the Slack Web API)                  *)
(***************************************************************************)
\* the catch block of a handler: slackService.sendMessage(failure); sendMessage
\* rethrows a failing chat.postMessage, and the handler has no second catch
CatchAndReport ==
    /\ gatewayCalled' = TRUE
    /\ \E ok \in BOOLEAN :
        IF ok
        THEN /\ failureMsgs' = failureMsgs + 1
             /\ posted' = posted + 1
             /\ outcome' = "returned"
        ELSE /\ UNCHANGED <<failureMsgs, posted>>
             /\ outcome' = "thrown"
    /\ pc' = "done"

\* slackService.sendMessage inside the try block: delivered, or the handler
\* goes to its catch block
SendInTry(next, catch) ==
    /\ gatewayCalled' = TRUE
    /\ \E ok \in BOOLEAN :
        IF ok THEN posted' = posted + 1 /\ pc' = next
        ELSE posted' = posted /\ pc' = catch

\* UpdateThen when updateMessage throws a failing chat.update on
UpdateThen_Rethrows(text, next) ==
    /\ updateText' = text
    /\ \E ok \in BOOLEAN :
        /\ finalDelivered' = ok
        /\ pc' = IF ok THEN next ELSE "hc_catch"

\* slackService.updateMessage(channel, streamResult.ts, text): chat.update
\* answers or fails; a failure is logged and swallowed, and the handler goes on
UpdateThen(text, next) ==
    /\ updateText' = text
    /\ \E ok \in BOOLEAN : finalDelivered' = ok
    /\ pc' = next

(***************************************************************************)
(* handleCapture (agentic version)                                         *)
(***************************************************************************)
\* LoopGuard with the cap tested one turn early
LoopGuard_CapEarly(resp, count) == Len(resp.calls) > 0 /\ count + 1 < MAX_CALLS

\* the condition of the while loop
LoopGuard(resp, count) == Len(resp.calls) > 0 /\ count < MAX_CALLS

\* CallPos when the batch is walked from its end
CallPos_Reversed(calls, k) == Len(calls) + 1 - k

\* for (const call of functionCalls): the position in the batch of the call
\* that iteration number k runs
CallPos(calls, k) == k

CurrentIndex == CallPos(functionCalls, callIdx)

CurrentCall == functionCalls[CurrentIndex]

\* DispatchCase when a name without a case runs the first case
DispatchCase_NoDefault(name) == IF name \in ToolNames THEN name ELSE "search_tasks"

\* switch (call.name): the case that runs
DispatchCase(name) == IF name \in ToolNames THEN name ELSE "default"

\* PushResponse when the result of a failed tool is not pushed
PushResponse_DropErrors(responses, name, result) ==
    IF result.kind = "error" THEN responses
    ELSE Append(responses, [name |-> name, response |-> result])

\* functionResponses.push({functionResponse: {name: call.name, response: result}})
PushResponse(responses, name, result) ==
    Append(responses, [name |-> name, response |-> result])

\* FinalAnswer when a response that still asks for tools is given a stock text
FinalAnswer_Stock(resp) == IF Len(resp.calls) > 0 THEN "answer" ELSE resp.text

\* const finalAnswer = response.text()
FinalAnswer(resp) == resp.text

\* the text of the progress update of a tool call
Executing(name) == "Executing: " \o name

\* AfterPush when only the first call of a batch is announced
AfterPush_SkipsNotify(calls, k) == IF k < Len(calls) THEN "hc_exec" ELSE "hc_send"

\* where the for loop goes after iteration number k: the next call, or
\* chat.sendMessage
AfterPush(calls, k) == IF k < Len(calls) THEN "hc_notify" ELSE "hc_send"

\* an entry of opLog: the store call op made for the call at position CurrentIndex
\* while `answered` results were pushed; ok: the call did not throw; hit: the
\* page the call names existed when it ran
LogEntry(op, pageId, ok) ==
    [call |-> CurrentIndex, answered |-> Len(functionResponses), op |-> op,
     page |-> pageId, ok |-> ok, hit |-> PageExists(pages, pageId)]

\* if (thread_ts) return;  otherwise startStreamingResponse
HC_Entry ==
    /\ pc = "hc_entry"
    /\ IF event.thread_ts # NoTs
       THEN /\ pc' = "done"
            /\ outcome' = "returned"
            /\ UNCHANGED <<posted, gatewayCalled>>
       ELSE /\ gatewayCalled' = TRUE
            /\ outcome' = outcome
            /\ \E ok \in BOOLEAN :
                IF ok THEN posted' = posted + 1 /\ pc' = "hc_thinking"
                ELSE posted' = posted /\ pc' = "hc_catch"
    /\ UNCHANGED <<pureVars, legacyVars, storeVars, ctlVars, loopVars, threadVars, updateText, finalDelivered,
                   failureMsgs, warnMsgs, providerTurns, storeCalled, providerCalled>>

\* updateMessage("Thinking agentically..."): a failure is logged and swallowed
HC_Thinking ==
    /\ pc = "hc_thinking"
    /\ UpdateThen("Thinking agentically...", "hc_start")
    /\ UNCHANGED <<pureVars, legacyVars, storeVars, ctlVars, outcome, loopVars, threadVars, posted,
                   failureMsgs, warnMsgs, providerTurns, flagVars>>

\* geminiService.startAgenticChat(text)
HC_Start ==
    /\ pc = "hc_start"
    /\ providerCalled' = TRUE
    /\ \/ \E r \in Responses :
            /\ response' = r
            /\ providerTurns' = providerTurns + 1
            /\ pc' = "hc_loop"
       \/ /\ pc' = "hc_catch"
          /\ UNCHANGED <<response, providerTurns>>
    /\ UNCHANGED <<pureVars, legacyVars, storeVars, ctlVars, outcome, callCount, functionCalls, functionResponses,
                   callIdx, tasksToArchive, archIdx, opLog, threadVars, msgVars, storeCalled,
                   gatewayCalled>>

\* while (response.functionCalls()?.length && callCount < MAX_CALLS)
HC_Loop ==
    /\ pc = "hc_loop"
    /\ IF LoopGuard(response, callCount)
       THEN /\ callCount' = callCount + 1
            /\ functionCalls' = response.calls
            /\ functionResponses' = <<>>
            /\ callIdx' = 1
            /\ opLog' = <<>>
            /\ pc' = "hc_notify"
       ELSE /\ pc' = "hc_final"
            /\ UNCHANGED <<callCount, functionCalls, functionResponses, callIdx, opLog>>
    /\ UNCHANGED <<pureVars, legacyVars, storeVars, ctlVars, outcome, response, tasksToArchive, archIdx, threadVars,
                   msgVars, providerTurns, flagVars>>

\* updateMessage("Executing: <name>..."): a failure is logged and swallowed
HC_Notify ==
    /\ pc = "hc_notify"
    /\ UpdateThen(Executing(CurrentCall.name), "hc_exec")
    /\ UNCHANGED <<pureVars, legacyVars, storeVars, ctlVars, outcome, loopVars, threadVars, posted,
                   failureMsgs, warnMsgs, providerTurns, flagVars>>

\* Push when a call whose result is an error is run again instead of answered
Push_RetriesErrors(result) ==
    IF result.kind = "error"
    THEN /\ functionResponses' = functionResponses
         /\ callIdx' = callIdx
         /\ pc' = "hc_exec"
    ELSE /\ functionResponses' = PushResponse(functionResponses, CurrentCall.name, result)
         /\ callIdx' = callIdx + 1
         /\ pc' = AfterPush(functionCalls, callIdx)

\* the end of one iteration of the for loop: the result is pushed
Push(result) ==
    /\ functionResponses' = PushResponse(functionResponses, CurrentCall.name, result)
    /\ callIdx' = callIdx + 1
    /\ pc' = AfterPush(functionCalls, callIdx)

\* case "search_tasks": searchTasks catches a failing query and returns []
HC_Search ==
    /\ pc = "hc_exec"
    /\ DispatchCase(CurrentCall.name) = "search_tasks"
    /\ storeCalled' = TRUE
    /\ \E ok \in BOOLEAN :
        /\ opLog' = Append(opLog, LogEntry("search", NoPage, ok))
        /\ Push(TasksResult(IF ok THEN SearchTasks(pages, CurrentCall.str) ELSE <<>>))
    /\ UNCHANGED <<pureVars, legacyVars, storeVars, ctlVars, outcome, response, callCount, functionCalls,
                   tasksToArchive, archIdx, threadVars, msgVars, providerTurns,
                   providerCalled, gatewayCalled>>

\* case "create_task": createPageFromThought(..., "agentic_create", ts)
HC_Create ==
    /\ pc = "hc_exec"
    /\ DispatchCase(CurrentCall.name) = "create_task"
    /\ storeCalled' = TRUE
    /\ \E d \in DiscoveryOutcomes, ok \in (IF Len(pages) < MaxPages THEN BOOLEAN ELSE {FALSE}) :
        /\ dataSourceId' = DiscoverDataSource(dataSourceId, d)
        /\ opLog' = Append(opLog, LogEntry("create", Len(pages) + 1, ok))
        /\ IF ok
           THEN /\ pages' = Append(pages, NewPage(CurrentCall.str, WORK, "agentic_create", event.ts))
                /\ Push(CreatedResult(Len(pages) + 1))
           ELSE /\ pages' = pages
                /\ Push(ErrorResult("Notion page creation failed"))
    /\ UNCHANGED <<pureVars, legacyVars, ctlVars, outcome, response, callCount, functionCalls, tasksToArchive,
                   archIdx, threadVars, msgVars, providerTurns, providerCalled, gatewayCalled>>

\* case "update_task_status": updatePageStatus(pageId, status)
HC_Update ==
    /\ pc = "hc_exec"
    /\ DispatchCase(CurrentCall.name) = "update_task_status"
    /\ storeCalled' = TRUE
    /\ \E ok \in (IF PageExists(pages, CurrentCall.pageId) THEN BOOLEAN ELSE {FALSE}) :
        /\ opLog' = Append(opLog, LogEntry("update", CurrentCall.pageId, ok))
        /\ IF ok
           THEN /\ pages' = UpdatePageStatus(pages, CurrentCall.pageId, CurrentCall.status)
                /\ Push(SuccessResult)
           ELSE /\ pages' = pages
                /\ Push(ErrorResult("Status update failed"))
    /\ UNCHANGED <<pureVars, legacyVars, dataSourceId, ctlVars, outcome, response, callCount, functionCalls,
                   tasksToArchive, archIdx, threadVars, msgVars, providerTurns,
                   providerCalled, gatewayCalled>>

\* case "add_task_note": appendNote(pageId, note)
HC_Note ==
    /\ pc = "hc_exec"
    /\ DispatchCase(CurrentCall.name) = "add_task_note"
    /\ storeCalled' = TRUE
    /\ \E ok \in (IF /\ PageExists(pages, CurrentCall.pageId)
                     /\ NoteFits(pages, CurrentCall.pageId)
                  THEN BOOLEAN ELSE {FALSE}) :
        /\ opLog' = Append(opLog, LogEntry("note", CurrentCall.pageId, ok))
        /\ IF ok
           THEN /\ pages' = AppendNote(pages, CurrentCall.pageId, CurrentCall.str)
                /\ Push(SuccessResult)
           ELSE /\ pages' = pages
                /\ Push(ErrorResult("Note append failed"))
    /\ UNCHANGED <<pureVars, legacyVars, dataSourceId, ctlVars, outcome, response, callCount, functionCalls,
                   tasksToArchive, archIdx, threadVars, msgVars, providerTurns,
                   providerCalled, gatewayCalled>>

\* case "archive_tasks": const tasksToArchive = await searchTasks(searchTerm)
HC_ArchiveSearch ==
    /\ pc = "hc_exec"
    /\ DispatchCase(CurrentCall.name) = "archive_tasks"
    /\ storeCalled' = TRUE
    /\ \E ok \in BOOLEAN :
        /\ opLog' = Append(opLog, LogEntry("search", NoPage, ok))
        /\ tasksToArchive' = IF ok THEN SearchTasks(pages, CurrentCall.str) ELSE <<>>
    /\ archIdx' = 1
    /\ pc' = "hc_archive"
    /\ UNCHANGED <<pureVars, legacyVars, storeVars, ctlVars, outcome, response, callCount, functionCalls,
                   functionResponses, callIdx, threadVars, msgVars, providerTurns, providerCalled,
                   gatewayCalled>>

\* for (const t of tasksToArchive) await archivePage(t.pageId); then the result
\* (tasksToArchive is local to the case: it is gone once the result is pushed)
HC_Archive ==
    /\ pc = "hc_archive"
    /\ IF archIdx <= Len(tasksToArchive)
       THEN \E ok \in BOOLEAN :
            /\ opLog' = Append(opLog, LogEntry("archive", tasksToArchive[archIdx], ok))
            /\ IF ok
               THEN /\ pages' = ArchivePage(pages, tasksToArchive[archIdx])
                    /\ archIdx' = archIdx + 1
                    /\ UNCHANGED <<functionResponses, callIdx, pc, tasksToArchive>>
               ELSE /\ Push(ErrorResult("Archive failed"))
                    /\ tasksToArchive' = <<>>
                    /\ archIdx' = 0
                    /\ pages' = pages
       ELSE /\ Push(ArchivedResult(Len(tasksToArchive)))
            /\ tasksToArchive' = <<>>
            /\ archIdx' = 0
            /\ UNCHANGED <<pages, opLog>>
    /\ UNCHANGED <<pureVars, legacyVars, dataSourceId, ctlVars, outcome, response, callCount, functionCalls,
                   threadVars, msgVars, providerTurns, flagVars>>

\* default: result = { error: "Unknown tool" }
HC_Unknown ==
    /\ pc = "hc_exec"
    /\ DispatchCase(CurrentCall.name) = "default"
    /\ Push(ErrorResult("Unknown tool"))
    /\ UNCHANGED <<pureVars, legacyVars, storeVars, ctlVars, outcome, response, callCount, functionCalls,
                   tasksToArchive, archIdx, opLog, threadVars, msgVars, providerTurns, flagVars>>

\* const nextStep = await chat.sendMessage(functionResponses); response =
\* nextStep.response (functionCalls and functionResponses are local to the
\* iteration of the while loop: they are gone once the batch is sent)
HC_Send ==
    /\ pc = "hc_send"
    /\ \/ \E r \in Responses :
            /\ response' = r
            /\ providerTurns' = providerTurns + 1
            /\ pc' = "hc_loop"
       \/ /\ pc' = "hc_catch"
          /\ UNCHANGED <<response, providerTurns>>
    /\ functionCalls' = <<>>
    /\ functionResponses' = <<>>
    /\ callIdx' = 0
    /\ opLog' = <<>>
    /\ UNCHANGED <<pureVars, legacyVars, storeVars, ctlVars, outcome, callCount, tasksToArchive, archIdx,
                   threadVars, msgVars, flagVars>>

\* updateMessage(channel, streamResult.ts, finalAnswer)
HC_Final ==
    /\ pc = "hc_final"
    /\ UpdateThen(FinalAnswer(response), "done")
    /\ outcome' = "returned"
    /\ UNCHANGED <<pureVars, legacyVars, storeVars, ctlVars, loopVars, threadVars, posted, failureMsgs, warnMsgs,
                   providerTurns, flagVars>>

\* catch (error) of handleCapture
HC_Catch ==
    /\ pc = "hc_catch"
    /\ CatchAndReport
    /\ UNCHANGED <<pureVars, legacyVars, storeVars, ctlVars, loopVars, threadVars, updateText, finalDelivered,
                   warnMsgs, providerTurns, storeCalled, providerCalled>>

HandleCapture ==
    \/ HC_Entry \/ HC_Thinking \/ HC_Start \/ HC_Loop \/ HC_Notify
    \/ HC_Search \/ HC_Create \/ HC_Update \/ HC_Note \/ HC_ArchiveSearch \/ HC_Archive
    \/ HC_Unknown \/ HC_Send \/ HC_Final \/ HC_Catch

(***************************************************************************)
(* handleThreadUpdate                                                      *)
(***************************************************************************)
\* the answers of updateWithContext: action, and whether updates.note and
\* updates.due_date are set ("summarize" stands for an action outside the six)
UpdateResults == [action : Actions \cup {"summarize"}, note : BOOLEAN, due_date : BOOLEAN]

\* if (!thread_ts) return;  otherwise findPageByThreadTS(thread_ts)
TU_Entry ==
    /\ pc = "tu_entry"
    /\ IF event.thread_ts = NoTs
       THEN /\ pc' = "done"
            /\ outcome' = "returned"
            /\ UNCHANGED <<dataSourceId, task, storeCalled>>
       ELSE /\ storeCalled' = TRUE
            /\ outcome' = outcome
            /\ \E d \in DiscoveryOutcomes, newOk \in BOOLEAN, oldOk \in BOOLEAN :
                /\ dataSourceId' = DiscoverDataSource(dataSourceId, d)
                /\ task' = FindPageByThreadTS(pages, event.thread_ts, dataSourceId', newOk, oldOk)
            /\ pc' = IF task' = NoPage THEN "tu_notfound"
                     ELSE IF pages[task'].sig = "" THEN "tu_nosig" ELSE "tu_analyzing"
    /\ UNCHANGED <<pureVars, legacyVars, pages, ctlVars, loopVars, updateResult, msgVars, providerTurns,
                   providerCalled, gatewayCalled>>

\* if (!task): the warning, then return
TU_NotFound ==
    /\ pc = "tu_notfound"
    /\ SendInTry("done", "tu_catch")
    /\ warnMsgs' = IF pc' = "done" THEN warnMsgs + 1 ELSE warnMsgs
    /\ outcome' = IF pc' = "done" THEN "returned" ELSE outcome
    /\ UNCHANGED <<pureVars, legacyVars, storeVars, ctlVars, loopVars, threadVars, updateText, finalDelivered,
                   failureMsgs, providerTurns, storeCalled, providerCalled>>

\* if (!task.thoughtSignature): the warning, and the handler goes on
TU_NoSig ==
    /\ pc = "tu_nosig"
    /\ SendInTry("tu_analyzing", "tu_catch")
    /\ warnMsgs' = IF pc' = "tu_analyzing" THEN warnMsgs + 1 ELSE warnMsgs
    /\ UNCHANGED <<pureVars, legacyVars, storeVars, ctlVars, outcome, loopVars, threadVars, updateText, finalDelivered,
                   failureMsgs, providerTurns, storeCalled, providerCalled>>

\* sendMessage("Analyzing your update...")
TU_Analyzing ==
    /\ pc = "tu_analyzing"
    /\ SendInTry("tu_classify", "tu_catch")
    /\ UNCHANGED <<pureVars, legacyVars, storeVars, ctlVars, outcome, loopVars, threadVars, updateText, finalDelivered,
                   failureMsgs, warnMsgs, providerTurns, storeCalled, providerCalled>>

\* TU_Classify when the classifier applies a "completed" decision itself
TU_Classify_Applies ==
    /\ pc = "tu_classify"
    /\ providerCalled' = TRUE
    /\ updateResult' \in UpdateResults
    /\ pages' = IF updateResult'.action = "completed"
                THEN UpdatePageStatus(pages, task, "Done") ELSE pages
    /\ pc' = "tu_apply"
    /\ UNCHANGED <<pureVars, legacyVars, dataSourceId, ctlVars, outcome, loopVars, task, msgVars,
                   providerTurns, storeCalled, gatewayCalled>>

\* geminiService.updateWithContext(...): it catches every failure of its own
TU_Classify ==
    /\ pc = "tu_classify"
    /\ providerCalled' = TRUE
    /\ updateResult' \in UpdateResults
    /\ pc' = "tu_apply"
    /\ UNCHANGED <<pureVars, legacyVars, storeVars, ctlVars, outcome, loopVars, task, msgVars, providerTurns,
                   storeCalled, gatewayCalled>>

\* ApplyDecision with the two status values swapped
ApplyDecision_SwappedStatus(ps, pageId, r) ==
    CASE r.action = "completed" -> UpdatePageStatus(ps, pageId, "In Progress")
      [] r.action = "in_progress" -> UpdatePageStatus(ps, pageId, "Done")
      [] r.action = "detail" -> AppendNote(ps, pageId, IF r.note THEN <<"n">> ELSE <<"t">>)
      [] r.action = "rescheduled" -> UpdateDueDate(ps, pageId, "d1")
      [] r.action = "deleted" -> ArchivePage(ps, pageId)

\* ApplyDecision when a status change is applied to every record of the thread
ApplyDecision_WholeThread(ps, pageId, r) ==
    CASE r.action = "completed" ->
            [i \in DOMAIN ps |-> IF ps[i].threadTS = ps[pageId].threadTS
                                 THEN [ps[i] EXCEPT !.status = "Done"] ELSE ps[i]]
      [] r.action = "in_progress" ->
            [i \in DOMAIN ps |-> IF ps[i].threadTS = ps[pageId].threadTS
                                 THEN [ps[i] EXCEPT !.status = "In Progress"] ELSE ps[i]]
      [] r.action = "detail" -> AppendNote(ps, pageId, IF r.note THEN <<"n">> ELSE <<"t">>)
      [] r.action = "rescheduled" -> UpdateDueDate(ps, pageId, "d1")
      [] r.action = "deleted" -> ArchivePage(ps, pageId)

\* the store after the NotionService call of the branch taken for
\* updateResult.action (note: updates.note || text, "n" is the note of the
\* classifier and "t" the text of the reply; "d1" is updates.due_date)
ApplyDecision(ps, pageId, r) ==
    CASE r.action = "completed" -> UpdatePageStatus(ps, pageId, "Done")
      [] r.action = "in_progress" -> UpdatePageStatus(ps, pageId, "In Progress")
      [] r.action = "detail" -> AppendNote(ps, pageId, IF r.note THEN <<"n">> ELSE <<"t">>)
      [] r.action = "rescheduled" -> UpdateDueDate(ps, pageId, "d1")
      [] r.action = "deleted" -> ArchivePage(ps, pageId)

\* TU_Apply when the confirmation is sent although the store call failed
TU_Apply_ConfirmsOnFailure ==
    /\ pc = "tu_apply"
    /\ LET a == updateResult.action
           mutates == a \in {"completed", "in_progress", "detail", "deleted"}
                      \/ (a = "rescheduled" /\ updateResult.due_date)
       IN  IF mutates
           THEN /\ storeCalled' = TRUE
                /\ \E ok \in (IF a = "detail" /\ ~NoteFits(pages, task) THEN {FALSE} ELSE BOOLEAN) :
                    IF ok
                    THEN /\ pages' = ApplyDecision(pages, task, updateResult)
                         /\ pc' = "tu_confirm"
                    ELSE /\ pages' = pages
                         /\ pc' = "tu_confirm"
                /\ outcome' = outcome
           ELSE /\ UNCHANGED <<pages, storeCalled>>
                /\ IF a = "rescheduled"
                   THEN pc' = "done" /\ outcome' = "returned"
                   ELSE pc' = "tu_confirm" /\ outcome' = outcome
    /\ UNCHANGED <<pureVars, legacyVars, dataSourceId, ctlVars, loopVars, threadVars, msgVars, providerTurns,
                   providerCalled, gatewayCalled>>

\* the store call the action asks for; each NotionService mutator rethrows a
\* failing API call
TU_Apply ==
    /\ pc = "tu_apply"
    /\ LET a == updateResult.action
           mutates == a \in {"completed", "in_progress", "detail", "deleted"}
                      \/ (a = "rescheduled" /\ updateResult.due_date)
       IN  IF mutates
           THEN /\ storeCalled' = TRUE
                /\ \E ok \in (IF a = "detail" /\ ~NoteFits(pages, task) THEN {FALSE} ELSE BOOLEAN) :
                    IF ok
                    THEN /\ pages' = ApplyDecision(pages, task, updateResult)
                         /\ pc' = "tu_confirm"
                    ELSE /\ pages' = pages
                         /\ pc' = "tu_catch"
                /\ outcome' = outcome
           ELSE /\ UNCHANGED <<pages, storeCalled>>
                /\ IF a = "rescheduled"
                   THEN pc' = "done" /\ outcome' = "returned"
                   ELSE pc' = "tu_confirm" /\ outcome' = outcome
    /\ UNCHANGED <<pureVars, legacyVars, dataSourceId, ctlVars, loopVars, threadVars, msgVars, providerTurns,
                   providerCalled, gatewayCalled>>

\* the confirmation of the branch taken
TU_Confirm ==
    /\ pc = "tu_confirm"
    /\ SendInTry("done", "tu_catch")
    /\ outcome' = IF pc' = "done" THEN "returned" ELSE outcome
    /\ UNCHANGED <<pureVars, legacyVars, storeVars, ctlVars, loopVars, threadVars, updateText, finalDelivered,
                   failureMsgs, warnMsgs, providerTurns, storeCalled, providerCalled>>

\* catch (error) of handleThreadUpdate
TU_Catch ==
    /\ pc = "tu_catch"
    /\ CatchAndReport
    /\ UNCHANGED <<pureVars, legacyVars, storeVars, ctlVars, loopVars, threadVars, updateText, finalDelivered,
                   warnMsgs, providerTurns, storeCalled, providerCalled>>

HandleThreadUpdate ==
    \/ TU_Entry \/ TU_NotFound \/ TU_NoSig \/ TU_Analyzing \/ TU_Classify \/ TU_Apply
    \/ TU_Confirm \/ TU_Catch

Next == Receive \/ Dispatch \/ HandleCapture \/ HandleThreadUpdate

Spec == Init /\ [][Next]_vars

(***************************************************************************)
(* handleCapture (multi-extraction version)                                *)
(***************************************************************************)
\* largest number of extractions in one answer of analyzeThought
MaxExtractions == 2

\* a title no record carries
MISSING == <<"z">>

\* the title of the records of earlier captures
STORED == <<"b">>

\* an extraction: intent, target_task_title and title (EMPTY is null)
Extraction(intent, target, title) == [intent |-> intent, target |-> target, title |-> title]

Extractions ==
    {Extraction("query", EMPTY, EMPTY), Extraction("new_task", EMPTY, <<"a">>)}
    \cup {Extraction("delete_task", t, EMPTY) : t \in {STORED, MISSING, EMPTY}}
    \cup {Extraction("update_task", t, EMPTY) : t \in {STORED, MISSING}}

GeminiResponses ==
    {[extractions |-> x, thought_signature |-> "sig0"] :
        x \in UNION {[1..n -> Extractions] : n \in 0..MaxExtractions}}

\* findPageByTitle / findPageByTitleFallback when the query answers: the first
\* page whose Title contains the partial title, or null
QueryByTitle(ps, partialTitle) ==
    LET hits == AscSeq({i \in DOMAIN ps : ~ps[i].archived /\ Contains(ps[i].title, partialTitle)},
                       Len(ps))
    IN  IF Len(hits) = 0 THEN NoPage ELSE hits[1]

\* findPageByTitle: the sub-resource query when an identifier was discovered and
\* that query answers (newOk), otherwise findPageByTitleFallback, which returns
\* null when its query throws (not oldOk)
FindPageByTitle(ps, partialTitle, dsId, newOk, oldOk) ==
    IF dsId # "" /\ newOk THEN QueryByTitle(ps, partialTitle)
    ELSE IF oldOk THEN QueryByTitle(ps, partialTitle) ELSE NoPage

\* the branch of the if / else-if chain an extraction takes
Branch(x) ==
    IF x.intent = "query" THEN "lc_query"
    ELSE IF x.intent = "delete_task" /\ x.target # EMPTY THEN "lc_delete"
    ELSE IF x.intent = "update_task" /\ x.target # EMPTY THEN "lc_update"
    ELSE IF x.intent = "new_task" THEN "lc_new"
    ELSE "lc_loop"

CurrentExtraction == geminiResponse.extractions[extIdx]

\* an entry of opLog: the store call op made for the extraction at position extIdx
ExtractionLogEntry(op, pageId, ok) ==
    [call |-> extIdx, answered |-> 0, op |-> op, page |-> pageId, ok |-> ok,
     hit |-> PageExists(pages, pageId)]

\* the store after the NotionService call of the update_task branch taken for
\* updateResult.action (this version has no branch for "deleted")
LegacyApplyDecision(ps, pageId, r) ==
    CASE r.action = "completed" -> UpdatePageStatus(ps, pageId, "Done")
      [] r.action = "in_progress" -> UpdatePageStatus(ps, pageId, "In Progress")
      [] r.action = "detail" -> AppendNote(ps, pageId, IF r.note THEN <<"n">> ELSE <<"t">>)
      [] r.action = "rescheduled" -> UpdateDueDate(ps, pageId, "d1")

\* slackService.updateMessage(channel, streamResult.ts, text): a failure is
\* logged and swallowed
UpdateMessage(text) ==
    /\ gatewayCalled' = TRUE
    /\ updateText' = text
    /\ \E ok \in BOOLEAN : finalDelivered' = ok

\* if (thread_ts) return;  otherwise startStreamingResponse
LC_Entry ==
    /\ pc = "hc_entry"
    /\ IF event.thread_ts # NoTs
       THEN /\ pc' = "done"
            /\ outcome' = "returned"
            /\ UNCHANGED <<posted, gatewayCalled>>
       ELSE /\ gatewayCalled' = TRUE
            /\ outcome' = outcome
            /\ \E ok \in BOOLEAN :
                IF ok THEN posted' = posted + 1 /\ pc' = "lc_analyze"
                ELSE posted' = posted /\ pc' = "lc_catch"
    /\ UNCHANGED <<pureVars, legacyVars, storeVars, ctlVars, loopVars, threadVars, updateText,
                   finalDelivered, failureMsgs, warnMsgs, providerTurns, storeCalled,
                   providerCalled>>

\* geminiService.analyzeThought(text, "low"): it catches every failure of its
\* own; an extractions value that is no list makes the for statement throw
LC_Analyze ==
    /\ pc = "lc_analyze"
    /\ providerCalled' = TRUE
    /\ \/ /\ geminiResponse' \in GeminiResponses
          /\ pc' = "lc_loop"
       \/ /\ geminiResponse' = geminiResponse
          /\ pc' = "lc_catch"
    /\ extIdx' = 0
    /\ UNCHANGED <<pureVars, storeVars, ctlVars, outcome, loopVars, threadVars, msgVars,
                   providerTurns, storeCalled, gatewayCalled>>

\* LC_Loop when the loop starts with the last extraction and walks backwards
LC_Loop_Backwards ==
    /\ pc = "lc_loop"
    /\ LET n == Len(geminiResponse.extractions)
           next == IF extIdx = 0 THEN n ELSE extIdx - 1
       IN  IF next >= 1
           THEN /\ extIdx' = next
                /\ pc' = Branch(geminiResponse.extractions[next])
                /\ outcome' = outcome
           ELSE /\ extIdx' = extIdx
                /\ pc' = "done"
                /\ outcome' = "returned"
    /\ opLog' = <<>>
    /\ task' = NoPage
    /\ updateResult' = NoUpdateResult
    /\ tasksToArchive' = <<>>
    /\ archIdx' = 0
    /\ UNCHANGED <<pureVars, geminiResponse, storeVars, ctlVars, response, callCount,
                   functionCalls, functionResponses, callIdx, msgVars, providerTurns, flagVars>>

\* for (const extraction of geminiResponse.extractions): the next extraction and
\* its branch (task, updateResult and tasksToDelete are local to the iteration)
LC_Loop ==
    /\ pc = "lc_loop"
    /\ IF extIdx < Len(geminiResponse.extractions)
       THEN /\ extIdx' = extIdx + 1
            /\ pc' = Branch(geminiResponse.extractions[extIdx + 1])
            /\ outcome' = outcome
       ELSE /\ extIdx' = extIdx
            /\ pc' = "done"
            /\ outcome' = "returned"
    /\ opLog' = <<>>
    /\ task' = NoPage
    /\ updateResult' = NoUpdateResult
    /\ tasksToArchive' = <<>>
    /\ archIdx' = 0
    /\ UNCHANGED <<pureVars, geminiResponse, storeVars, ctlVars, response, callCount,
                   functionCalls, functionResponses, callIdx, msgVars, providerTurns, flagVars>>

\* intent "query": updateMessage, searchTasks, updateMessage, answerQuery (it
\* catches a provider failure), updateMessage(answer)
LC_Query ==
    /\ pc = "lc_query"
    /\ storeCalled' = TRUE
    /\ \E ok \in BOOLEAN : opLog' = Append(opLog, ExtractionLogEntry("search", NoPage, ok))
    /\ UpdateMessage("answer")
    /\ pc' = "lc_loop"
    /\ UNCHANGED <<pureVars, legacyVars, storeVars, ctlVars, outcome, response, callCount,
                   functionCalls, functionResponses, callIdx, tasksToArchive, archIdx,
                   threadVars, posted, failureMsgs, warnMsgs, providerTurns, providerCalled>>

\* intent "delete_task": updateMessage("Searching for tasks ..."), then
\* const tasksToDelete = await searchTasks(deleteTerm)
LC_DeleteSearch ==
    /\ pc = "lc_delete"
    /\ storeCalled' = TRUE
    /\ UpdateMessage("Searching for tasks to remove")
    /\ \E ok \in BOOLEAN :
        /\ opLog' = Append(opLog, ExtractionLogEntry("search", NoPage, ok))
        /\ tasksToArchive' = IF ok THEN SearchTasks(pages, CurrentExtraction.target) ELSE <<>>
    /\ archIdx' = 1
    /\ pc' = IF Len(tasksToArchive') > 0 THEN "lc_archive" ELSE "lc_delete_miss"
    /\ UNCHANGED <<pureVars, legacyVars, storeVars, ctlVars, outcome, response, callCount,
                   functionCalls, functionResponses, callIdx, threadVars, posted, failureMsgs,
                   warnMsgs, providerTurns, providerCalled>>

\* tasksToDelete.length === 0: updateMessage("Could not find any tasks ...")
LC_DeleteMiss ==
    /\ pc = "lc_delete_miss"
    /\ UpdateMessage("Could not find any tasks to delete")
    /\ warnMsgs' = IF finalDelivered' THEN warnMsgs + 1 ELSE warnMsgs
    /\ pc' = "lc_loop"
    /\ UNCHANGED <<pureVars, legacyVars, storeVars, ctlVars, outcome, loopVars, threadVars,
                   posted, failureMsgs, providerTurns, storeCalled, providerCalled>>

\* updateMessage("Found n task(s)"), for (const task of tasksToDelete) await
\* archivePage(task.pageId), then updateMessage("Successfully removed ...")
LC_Archive ==
    /\ pc = "lc_archive"
    /\ IF archIdx <= Len(tasksToArchive)
       THEN /\ \E ok \in BOOLEAN :
                /\ opLog' = Append(opLog, ExtractionLogEntry("archive", tasksToArchive[archIdx], ok))
                /\ IF ok
                   THEN /\ pages' = ArchivePage(pages, tasksToArchive[archIdx])
                        /\ archIdx' = archIdx + 1
                        /\ pc' = pc
                   ELSE /\ pages' = pages
                        /\ archIdx' = archIdx
                        /\ pc' = "lc_catch"
            /\ IF archIdx = 1 THEN UpdateMessage("Found task(s). Archiving now")
               ELSE UNCHANGED <<gatewayCalled, updateText, finalDelivered>>
       ELSE /\ UpdateMessage("Successfully removed")
            /\ pc' = "lc_loop"
            /\ UNCHANGED <<pages, opLog, archIdx>>
    /\ UNCHANGED <<pureVars, legacyVars, dataSourceId, ctlVars, outcome, response, callCount,
                   functionCalls, functionResponses, callIdx, tasksToArchive, threadVars, posted,
                   failureMsgs, warnMsgs, providerTurns, storeCalled, providerCalled>>

\* intent "update_task": updateMessage("Searching for task ..."), then
\* const task = await findPageByTitle(extraction.target_task_title)
LC_UpdateFind ==
    /\ pc = "lc_update"
    /\ storeCalled' = TRUE
    /\ UpdateMessage("Searching for task")
    /\ \E d \in DiscoveryOutcomes, newOk \in BOOLEAN, oldOk \in BOOLEAN :
        /\ dataSourceId' = DiscoverDataSource(dataSourceId, d)
        /\ task' = FindPageByTitle(pages, CurrentExtraction.target, dataSourceId', newOk, oldOk)
    /\ opLog' = Append(opLog, ExtractionLogEntry("find", task', TRUE))
    /\ pc' = IF task' = NoPage THEN "lc_update_miss" ELSE "lc_classify"
    /\ UNCHANGED <<pureVars, legacyVars, pages, ctlVars, outcome, response, callCount,
                   functionCalls, functionResponses, callIdx, tasksToArchive, archIdx,
                   updateResult, posted, failureMsgs, warnMsgs, providerTurns, providerCalled>>

\* LC_UpdateMiss when the handler looks the title up again after the warning
LC_UpdateMiss_Retries ==
    /\ pc = "lc_update_miss"
    /\ SendInTry("lc_update", "lc_catch")
    /\ warnMsgs' = IF pc' = "lc_update" THEN warnMsgs + 1 ELSE warnMsgs
    /\ UNCHANGED <<pureVars, legacyVars, storeVars, ctlVars, outcome, loopVars, threadVars,
                   updateText, finalDelivered, failureMsgs, providerTurns, storeCalled,
                   providerCalled>>

\* !task: sendMessage("Could not find task ... for updating", ts)
LC_UpdateMiss ==
    /\ pc = "lc_update_miss"
    /\ SendInTry("lc_loop", "lc_catch")
    /\ warnMsgs' = IF pc' = "lc_loop" THEN warnMsgs + 1 ELSE warnMsgs
    /\ UNCHANGED <<pureVars, legacyVars, storeVars, ctlVars, outcome, loopVars, threadVars,
                   updateText, finalDelivered, failureMsgs, providerTurns, storeCalled,
                   providerCalled>>

\* updateMessage("Found ... Updating status"), then updateWithContext(...): it
\* catches every failure of its own
LC_Classify ==
    /\ pc = "lc_classify"
    /\ UpdateMessage("Found. Updating status")
    /\ providerCalled' = TRUE
    /\ updateResult' \in UpdateResults
    /\ pc' = "lc_apply"
    /\ UNCHANGED <<pureVars, legacyVars, storeVars, ctlVars, outcome, loopVars, task, posted,
                   failureMsgs, warnMsgs, providerTurns, storeCalled>>

\* the store call the action asks for, then the updateMessage of the branch
\* (rescheduled without a due date: neither)
LC_Apply ==
    /\ pc = "lc_apply"
    /\ LET a == updateResult.action
           mutates == a \in {"completed", "in_progress", "detail"}
                      \/ (a = "rescheduled" /\ updateResult.due_date)
       IN  IF mutates
           THEN /\ storeCalled' = TRUE
                /\ \E ok \in (IF a = "detail" /\ ~NoteFits(pages, task) THEN {FALSE} ELSE BOOLEAN) :
                    /\ opLog' = Append(opLog, ExtractionLogEntry(a, task, ok))
                    /\ IF ok
                       THEN /\ pages' = LegacyApplyDecision(pages, task, updateResult)
                            /\ UpdateMessage("Updated")
                            /\ pc' = "lc_loop"
                       ELSE /\ pages' = pages
                            /\ pc' = "lc_catch"
                            /\ UNCHANGED <<gatewayCalled, updateText, finalDelivered>>
           ELSE /\ UNCHANGED <<pages, storeCalled, opLog>>
                /\ pc' = "lc_loop"
                /\ IF a = "rescheduled"
                   THEN UNCHANGED <<gatewayCalled, updateText, finalDelivered>>
                   ELSE UpdateMessage("Acknowledged update")
    /\ UNCHANGED <<pureVars, legacyVars, dataSourceId, ctlVars, outcome, response, callCount,
                   functionCalls, functionResponses, callIdx, tasksToArchive, archIdx,
                   threadVars, posted, failureMsgs, warnMsgs, providerTurns, providerCalled>>

\* intent "new_task": updateMessage("Saving ..."), then createPageFromThought(
\* extraction, geminiResponse.thought_signature, ts)
LC_New ==
    /\ pc = "lc_new"
    /\ storeCalled' = TRUE
    /\ UpdateMessage("Saving to Notion")
    /\ \E d \in DiscoveryOutcomes, ok \in (IF Len(pages) < MaxPages THEN BOOLEAN ELSE {FALSE}) :
        /\ dataSourceId' = DiscoverDataSource(dataSourceId, d)
        /\ opLog' = Append(opLog, ExtractionLogEntry("create", Len(pages) + 1, ok))
        /\ IF ok
           THEN /\ pages' = Append(pages, NewPage(CurrentExtraction.title, WORK,
                                                  geminiResponse.thought_signature, event.ts))
                /\ pc' = "lc_link"
           ELSE /\ pages' = pages
                /\ pc' = "lc_catch"
    /\ UNCHANGED <<pureVars, legacyVars, ctlVars, outcome, response, callCount, functionCalls,
                   functionResponses, callIdx, tasksToArchive, archIdx, threadVars, posted,
                   failureMsgs, warnMsgs, providerTurns, providerCalled>>

\* sendNotionLink(channel, ts, url, extraction.title): a sendMessage
LC_Link ==
    /\ pc = "lc_link"
    /\ SendInTry("lc_loop", "lc_catch")
    /\ UNCHANGED <<pureVars, legacyVars, storeVars, ctlVars, outcome, loopVars, threadVars,
                   updateText, finalDelivered, failureMsgs, warnMsgs, providerTurns, storeCalled,
                   providerCalled>>

\* catch (error) of handleCapture
LC_Catch ==
    /\ pc = "lc_catch"
    /\ CatchAndReport
    /\ UNCHANGED <<pureVars, legacyVars, storeVars, ctlVars, loopVars, threadVars, updateText,
                   finalDelivered, warnMsgs, providerTurns, storeCalled, providerCalled>>

LegacyCapture ==
    \/ LC_Entry \/ LC_Analyze \/ LC_Loop \/ LC_Query \/ LC_DeleteSearch \/ LC_DeleteMiss
    \/ LC_Archive \/ LC_UpdateFind \/ LC_UpdateMiss \/ LC_Classify \/ LC_Apply \/ LC_New
    \/ LC_Link \/ LC_Catch

LegacyNext == Receive \/ Dispatch \/ LegacyCapture \/ HandleThreadUpdate

\* the process with the multi-extraction handleCapture behind the listeners
LegacySpec == Init /\ [][LegacyNext]_vars

(***************************************************************************)
(* Properties                                                              *)
(***************************************************************************)
\* the positions the agentic loop of handleCapture runs through
BatchPcs == {"hc_notify", "hc_exec", "hc_archive", "hc_send"}

AgenticPcs == {"hc_thinking", "hc_start", "hc_loop", "hc_final", "hc_catch"} \cup BatchPcs

\* handleCapture returned through its final updateMessage
Answered ==
    /\ handler = "handleCapture"
    /\ pc = "done"
    /\ outcome = "returned"
    /\ failureMsgs = 0
    /\ event.thread_ts = NoTs

\* the loop ended while the last response still asked for tools: every response
\* of the conversation asked for at least one tool call
AlwaysAsked == Answered /\ Len(response.calls) > 0

\* a record was created for the inbound event
Created == \E i \in DOMAIN pages : pages[i].threadTS = NewTs

\* the entries of opLog
LogIdx == DOMAIN opLog

\* C1 as stated: when every response asks for a tool call, the loop ends after
\* exactly 5 provider turns, the opening turn included, and the final answer is
\* a non-empty text.
C1_FiveTurnsNonEmpty == AlwaysAsked => (providerTurns = 5 /\ updateText # "")

\* C1, what the code does: when every response asks for a tool call, the loop
\* ends after exactly 6 provider turns (the opening turn and one turn for each
\* of the 5 batches of tool calls), no run has more than 6 turns, and the final
\* answer is the text of the sixth response, empty or not.
C1_SixTurns ==
    /\ providerTurns <= 6
    /\ callCount <= 5
    /\ AlwaysAsked => (providerTurns = 6 /\ callCount = 5 /\ updateText = response.text)

\* every response asked for a tool: a sixth turn was taken and the answer is empty
C1_Witness == AlwaysAsked /\ providerTurns = 6 /\ updateText = ""

\* C2: when the loop stops at the cap, the only step left is the final
\* updateMessage, which carries the text of the latest provider response and
\* after which handleCapture has returned; at the cap the loop never starts
\* another batch.
C2_CapSurfacesLatestText ==
    [][/\ (pc = "hc_loop" /\ callCount = MAX_CALLS) => pc' = "hc_final"
       /\ (pc = "hc_final" /\ Len(response.calls) > 0)
            => (/\ pc' = "done"
                /\ outcome' = "returned"
                /\ failureMsgs' = 0
                /\ response' = response
                /\ updateText' = response.text)]_vars

C2_Witness ==
    /\ AlwaysAsked
    /\ callCount = MAX_CALLS
    /\ response.text = "answer"
    /\ updateText = "answer"
    /\ finalDelivered

\* C3: when the batch of results is sent (and at every point before), the
\* results pushed so far answer the calls of the batch one for one, each under
\* the name of its call; at the send every call has its result.
C3_OneResultPerCall ==
    /\ Len(functionResponses) <= Len(functionCalls)
    /\ \A i \in DOMAIN functionResponses : functionResponses[i].name = functionCalls[i].name
    /\ pc \in BatchPcs \ {"hc_send"} => Len(functionResponses) = callIdx - 1
    /\ pc = "hc_send" => Len(functionResponses) = Len(functionCalls)

C3_Witness ==
    /\ pc = "hc_send"
    /\ Len(functionCalls) = 2
    /\ functionCalls[1].name # functionCalls[2].name
    /\ functionResponses[1].response.kind = "error"
    /\ functionResponses[2].response.kind = "success"

\* C4: every store call of a batch is made for the call that follows the
\* calls already answered (call k runs after exactly k-1 results were pushed),
\* the store calls are made in the order of the batch, and the results lie in
\* the order of their calls.
C4_SequentialInOrder ==
    /\ \A i \in LogIdx : opLog[i].answered = opLog[i].call - 1
    /\ \A i, j \in LogIdx : i < j => opLog[i].call <= opLog[j].call
    /\ \A i \in DOMAIN functionResponses :
        /\ i <= Len(functionCalls)
        /\ functionResponses[i].name = functionCalls[i].name

C4_Witness ==
    /\ pc = "hc_send"
    /\ Len(functionCalls) = 2
    /\ \E i, j \in LogIdx :
        /\ opLog[i].call = 1 /\ opLog[i].op = "search"
        /\ opLog[j].call = 2 /\ opLog[j].op = "create" /\ opLog[j].ok
    /\ functionResponses[1].response.kind = "tasks"
    /\ functionResponses[2].response.kind = "created"

\* C5: when a create_task call of a batch created a record and a later
\* update_task_status call of the same batch names that record, the record
\* existed in the store when the update ran, and an update that did not fail
\* left the record with the status it asked for.
C5_UpdateSeesCreated ==
    \A i, j \in LogIdx :
        (/\ opLog[i].op = "create" /\ opLog[i].ok
         /\ opLog[j].op = "update" /\ opLog[j].page = opLog[i].page
         /\ opLog[i].call < opLog[j].call)
        => (/\ opLog[j].hit
            /\ i < j
            /\ opLog[j].ok => pages[opLog[j].page].status = functionCalls[opLog[j].call].status)

C5_Witness ==
    /\ pc = "hc_send"
    /\ Len(opLog) = 2
    /\ opLog[1].op = "create" /\ opLog[1].ok
    /\ opLog[2].op = "update" /\ opLog[2].ok /\ opLog[2].page = opLog[1].page
    /\ pages[opLog[2].page].status = "Done"

\* the result pushed for the call at position k of the batch
ResultOf(k) == functionResponses[k].response

\* a store call of the batch failed and its tool call has been answered
FailedAnswered(i) == ~opLog[i].ok /\ opLog[i].call <= Len(functionResponses)

\* C6 as stated: whenever a store call fails during a tool call, the result of
\* that tool call is {error: message}.
C6_EveryFailureIsError ==
    \A i \in LogIdx :
        (FailedAnswered(i) /\ opLog[i].call <= Len(functionCalls))
        => ResultOf(opLog[i].call).kind = "error"

\* C6, what the code does: a store call that throws to the handler (page creation,
\* status update, note append, archiving) gives the result {error: message};
\* a failing query inside searchTasks is swallowed there, so search_tasks
\* answers {tasks: []} and archive_tasks {success: true, archivedCount: 0};
\* in every case the remaining calls are executed, the batch is sent as the
\* next provider turn, and no failure message goes to the user.
C6_FailureFedBack ==
    /\ \A i \in LogIdx :
        FailedAnswered(i) =>
            IF opLog[i].op = "search"
            THEN \/ ResultOf(opLog[i].call) = TasksResult(<<>>)
                 \/ ResultOf(opLog[i].call) = ArchivedResult(0)
            ELSE /\ ResultOf(opLog[i].call).kind = "error"
                 /\ ResultOf(opLog[i].call).error # ""
    /\ pc \in BatchPcs => (failureMsgs = 0 /\ outcome = "none")
    /\ pc = "hc_send" =>
        /\ Len(functionResponses) = Len(functionCalls)
        /\ \A k \in DOMAIN functionCalls :
            functionCalls[k].name \in ToolNames => \E i \in LogIdx : opLog[i].call = k

\* a batch of two calls is ready to be sent: the query of the search_tasks call
\* failed and the call is answered {tasks: []}; the note append of the second
\* call failed on an existing page and is answered {error: message}
C6_Witness ==
    /\ pc = "hc_send"
    /\ Len(functionCalls) = 2
    /\ functionCalls[1].name = "search_tasks"
    /\ \E i, j \in LogIdx :
        /\ opLog[i].call = 1 /\ ~opLog[i].ok /\ opLog[i].op = "search"
        /\ opLog[j].call = 2 /\ ~opLog[j].ok /\ opLog[j].op = "note" /\ opLog[j].hit
    /\ ResultOf(1) = TasksResult(<<>>)
    /\ ResultOf(2) = ErrorResult("Note append failed")

\* C7: a call whose name is none of the five tools is answered
\* {error: "Unknown tool"} without any store call, the handler neither throws
\* nor reports a failure, and the rest of the batch is executed and sent.
C7_UnknownTool ==
    /\ \A k \in DOMAIN functionResponses :
        (k <= Len(functionCalls) /\ functionCalls[k].name \notin ToolNames)
        => (/\ ResultOf(k) = ErrorResult("Unknown tool")
            /\ \A i \in LogIdx : opLog[i].call # k)
    /\ pc \in BatchPcs => (failureMsgs = 0 /\ outcome = "none")
    /\ pc = "hc_send" => Len(functionResponses) = Len(functionCalls)

C7_Witness ==
    /\ pc = "hc_send"
    /\ Len(functionCalls) = 2
    /\ functionCalls[1].name = UnknownToolName
    /\ ResultOf(1) = ErrorResult("Unknown tool")
    /\ ResultOf(2).kind = "created"
    /\ ~(\E i \in LogIdx : opLog[i].call = 1)

\* C8 as stated: whatever fails, the handlers never let an exception reach
\* the host, and at most one failure message is sent.
C8_NeverPropagates == outcome # "thrown" /\ failureMsgs <= 1

\* handleThreadUpdate found the record, a store call or a message of the try
\* block failed, and the failure message of the catch block failed as well
C8_Witness ==
    /\ handler = "handleThreadUpdate"
    /\ task # NoPage
    /\ pc = "done"
    /\ outcome = "thrown"
    /\ failureMsgs = 0

\* startAgenticChat was called and failed
StartFailed == handler = "handleCapture" /\ providerCalled /\ providerTurns = 0

\* C9 as stated: when startAgenticChat fails, handleCapture sends exactly one
\* failure message, makes no store call and lets no error propagate.
C9_StartFailureReported ==
    (StartFailed /\ pc = "done") => (failureMsgs = 1 /\ ~storeCalled /\ outcome = "returned")

\* startAgenticChat failed and so did the failure message of the catch block
C9_Witness ==
    /\ StartFailed
    /\ pc = "done"
    /\ outcome = "thrown"
    /\ failureMsgs = 0
    /\ ~storeCalled

\* C10: a listener never hands an event that carries a thread_ts to
\* handleCapture; while such an event is processed no agentic turn is taken
\* and no record is created; and handleCapture called with a thread_ts returns
\* without a call to the gateway, the provider or the store.
C10_ThreadRepliesSkipCapture ==
    /\ (pc = "routed" /\ inbound.listener \in {"app_mention", "message"}
        /\ inbound.thread_ts # NoTs) => handler # "handleCapture"
    /\ event.thread_ts # NoTs =>
        /\ pc \notin AgenticPcs
        /\ providerTurns = 0
        /\ ~Created
        /\ handler = "handleCapture" =>
            (/\ ~gatewayCalled /\ ~providerCalled /\ ~storeCalled
             /\ posted = 0
             /\ pc \in {"hc_entry", "done"}
             /\ outcome \in {"none", "returned"})

C10_Witness ==
    /\ handler = "handleThreadUpdate"
    /\ event.thread_ts = OldTs
    /\ pc = "done"
    /\ outcome = "returned"
    /\ task # NoPage
    /\ pages[task].status = "Done"
    /\ updateResult.action = "completed"

(***************************************************************************)
(* The text a provider answers with, and how GeminiService decodes it      *)
(***************************************************************************)
\* A provider output is a sequence of lexemes.  White space between lexemes is
\* left out: JSON.parse skips it, trim() removes it and the \s* and \n? of the
\* patterns absorb it.
\*   "prose"     words without brace, backtick or JSON syntax
\*   "jsonfence" the characters ```json
\*   "fence"     the characters ```
\*   "lbrace"    a { that opens no complete object
\*   "rbrace"    a } that closes no complete object
\*   "null"      the JSON literal null
\*   "object"    the text of a complete JSON object { ... }; val is what it decodes to
Lexemes == {"prose", "jsonfence", "fence", "lbrace", "rbrace", "null", "object"}

Tok(lex, val) == [lex |-> lex, val |-> val]

IsFence(tok) == tok.lex \in {"jsonfence", "fence"}

Opens(tok) == tok.lex \in {"lbrace", "object"}

Closes(tok) == tok.lex \in {"rbrace", "object"}

\* the smallest / largest member of a non-empty set of numbers
Min(S) == CHOOSE x \in S : \A y \in S : x <= y

Max(S) == CHOOSE x \in S : \A y \in S : y <= x

NoMatch == [matched |-> FALSE, group |-> <<>>]

Match(group) == [matched |-> TRUE, group |-> group]

\* the positions of t that a fence opened at position i can close at
ClosersAfter(t, i) == {j \in DOMAIN t : j > i /\ IsFence(t[j])}

\* text.match(/```json\s*\n?([\s\S]*?)\n?```/i): the leftmost ```json that has a
\* ``` after it, and the shortest text between the two
JsonCodeBlock(t) ==
    LET starts == {i \in DOMAIN t : t[i].lex = "jsonfence" /\ ClosersAfter(t, i) # {}}
    IN  IF starts = {} THEN NoMatch
        ELSE Match(SubSeq(t, Min(starts) + 1, Min(ClosersAfter(t, Min(starts))) - 1))

\* text.match(/```\s*\n?([\s\S]*?)\n?```/): the leftmost ``` that has a ``` after
\* it; when it is the ``` of a ```json, the word json is part of the group
GenericCodeBlock(t, word) ==
    LET starts == {i \in DOMAIN t : IsFence(t[i]) /\ ClosersAfter(t, i) # {}}
    IN  IF starts = {} THEN NoMatch
        ELSE LET i == Min(starts)
                 body == SubSeq(t, i + 1, Min(ClosersAfter(t, i)) - 1)
             IN  Match(IF t[i].lex = "jsonfence" THEN <<word>> \o body ELSE body)

\* text.match(/\{[\s\S]*\}/): from the leftmost { to the last }
JsonObjectMatch(t) ==
    LET ends == {j \in DOMAIN t : Closes(t[j])}
        starts == {i \in DOMAIN t : Opens(t[i]) /\ \E j \in ends :
                                        j > i \/ (j = i /\ t[i].lex = "object")}
    IN  IF starts = {} THEN NoMatch
        ELSE Match(SubSeq(t, Min(starts), Max(ends)))

\* JSON.parse(text): the text decodes when it is one JSON value and nothing else
JsonParse(t) ==
    IF Len(t) = 1 /\ t[1].lex \in {"object", "null"}
    THEN [ok |-> TRUE, isNull |-> t[1].lex = "null", val |-> t[1].val]
    ELSE [ok |-> FALSE, isNull |-> FALSE, val |-> <<>>]

(***************************************************************************)
(* GeminiService.updateWithContext                                         *)
(***************************************************************************)
\* the keywords of the local fallback
DONE == <<"d", "o", "n", "e">>

COMPLETE == <<"c", "o", "m", "p", "l", "e", "t", "e">>

DOING == <<"d", "o", "i", "n", "g">>

PROGRESS == <<"p", "r", "o", "g", "r", "e", "s", "s">>

START == <<"s", "t", "a", "r", "t">>

RESCHEDULE == <<"r", "e", "s", "c", "h", "e", "d", "u", "l", "e">>

Digits == {"0", "1", "2", "3", "4", "5", "6", "7", "8", "9"}

\* lowerReply.match(/\d{4}-\d{2}-\d{2}/)
MatchesIsoDate(str) ==
    \E i \in 0..(Len(str) - 10) :
        /\ \A k \in {1, 2, 3, 4, 6, 7, 9, 10} : str[i + k] \in Digits
        /\ str[i + 5] = "-"
        /\ str[i + 8] = "-"

\* the replies of the user
Replies ==
    {<<"d", "o", "n", "e">>,
     <<"D", "o", "n", "e">>,
     <<"c", "o", "m", "p", "l", "e", "t", "e">>,
     <<"d", "o", "i", "n", "g">>,
     <<"p", "r", "o", "g", "r", "e", "s", "s">>,
     <<"s", "t", "a", "r", "t">>,
     <<"r", "e", "s", "c", "h", "e", "d", "u", "l", "e">>,
     <<"2", "0", "2", "6", "-", "0", "1", "-", "0", "2">>,
     <<"o", "k">>,
     <<"s", "t", "a", "r", "t", "d", "o", "n", "e">>,
     <<"s", "t", "a", "r", "t", "2", "0", "2", "6", "-", "0", "1", "-", "0", "2">>,
     EMPTY}

\* task.thoughtSignature || "": the signature the caller passes
Signatures == {"", "sig0"}

\* what an object in the provider's answer decodes to ("" and EMPTY: the field
\* is missing or empty)
UpdObj(action, note, due_date, sig) ==
    [action |-> action, note |-> note, due_date |-> due_date, thought_signature |-> sig]

NoUpdObj == UpdObj("", EMPTY, "", "")

UpdateObjects ==
    {UpdObj("completed", EMPTY, "", "sig1"),
     UpdObj("detail", <<"n">>, "", ""),
     UpdObj("summarize", EMPTY, "", "")}

UpdateTokens ==
    {Tok(l, NoUpdObj) : l \in Lexemes \ {"object"}} \cup {Tok("object", o) : o \in UpdateObjects}

\* the value updateWithContext returns, or the error it throws
UpdateReturn(o) ==
    [threw |-> FALSE, action |-> o.action, note |-> o.note, due_date |-> o.due_date,
     thought_signature |-> o.thought_signature]

UpdateThrow == [threw |-> TRUE, action |-> "", note |-> EMPTY, due_date |-> "",
                thought_signature |-> ""]

\* the local fallback: { action: ..., updates: {} }
KeywordFallback(reply) ==
    LET lowerReply == ToLowerCase(reply)
    IN  UpdObj(IF Contains(lowerReply, DONE) \/ Contains(lowerReply, COMPLETE)
                   THEN "completed"
               ELSE IF Contains(lowerReply, DOING) \/ Contains(lowerReply, PROGRESS)
                       \/ Contains(lowerReply, START)
                   THEN "in_progress"
               ELSE IF Contains(lowerReply, RESCHEDULE) \/ MatchesIsoDate(lowerReply)
                   THEN "rescheduled"
               ELSE "detail",
               EMPTY, "", "")

\* jsonString after the three patterns: each pattern is tried only while
\* jsonString is still null or empty
ExtractJsonString(t, word) ==
    LET a == JsonCodeBlock(t)
        js1 == IF a.matched THEN a.group ELSE <<>>
        b == GenericCodeBlock(t, word)
        js2 == IF Len(js1) > 0 THEN js1 ELSE IF b.matched THEN b.group ELSE <<>>
        c == JsonObjectMatch(t)
    IN  IF Len(js2) > 0 THEN js2 ELSE IF c.matched THEN c.group ELSE <<>>

\* updateResult after the parsing cascade: direct decode, then the extracted
\* jsonString, then the local fallback
ParseUpdate(t, reply) ==
    LET direct == JsonParse(t)
        jsonString == ExtractJsonString(t, Tok("prose", NoUpdObj))
        inner == JsonParse(jsonString)
    IN  IF direct.ok THEN direct
        ELSE IF Len(jsonString) > 0 /\ inner.ok THEN inner
        ELSE [ok |-> TRUE, isNull |-> FALSE, val |-> KeywordFallback(reply)]

\* PreserveSignature when the original signature is not put back
PreserveSignature_Dropped(o, originalSignature) == o

\* if (!updateResult.thought_signature) updateResult.thought_signature = originalSignature
PreserveSignature(o, originalSignature) ==
    IF o.thought_signature = "" THEN [o EXCEPT !.thought_signature = originalSignature] ELSE o

\* UpdateCatch when the outer catch rethrows
UpdateCatch_Rethrows(originalSignature, reply) == UpdateThrow

\* catch (error) of the outer try: action detail with the reply as the note
UpdateCatch(originalSignature, reply) ==
    UpdateReturn(UpdObj("detail", reply, "", originalSignature))

\* updateWithContext(originalSignature, reply, originalTask); providerOk: the
\* generateContent call and response.text() return, t: the text.  Reading
\* thought_signature of null raises a TypeError inside the outer try.
UpdateWithContext(originalSignature, reply, providerOk, t) ==
    IF ~providerOk THEN UpdateCatch(originalSignature, reply)
    ELSE LET parsed == ParseUpdate(t, reply)
         IN  IF parsed.isNull
             THEN UpdateCatch(originalSignature, reply)
             ELSE UpdateReturn(PreserveSignature(parsed.val, originalSignature))

(***************************************************************************)
(* GeminiService: the locally derived signatures                           *)
(***************************************************************************)
\* String.prototype.charCodeAt for the characters the texts are made of
CharCode(c) ==
    CASE c = "A" -> 65 [] c = "B" -> 66 [] c = "a" -> 97 [] c = "z" -> 122
      [] c = "\n" -> 10

\* 2^16: a 32-bit integer is kept as its upper and lower 16 bits, in two's
\* complement (hi >= 2^15: the integer is negative)
HALF == 65536

Int32(hi, lo) == [hi |-> hi, lo |-> lo]

\* ShiftLeft5 when the bits shifted out of the lower half are lost
ShiftLeft5_NoCarry(x) == Int32((x.hi * 32) % HALF, (x.lo * 32) % HALF)

\* x << 5
ShiftLeft5(x) == Int32((x.hi * 32 + (x.lo * 32) \div HALF) % HALF, (x.lo * 32) % HALF)

\* ((a - b) + char) & itself: the sum reduced to 32 bits
SubAdd(a, b, char) ==
    LET lo == (a.lo - b.lo) + char
    IN  Int32(((a.hi - b.hi) + (lo \div HALF)) % HALF, lo % HALF)

\* hash after the first n characters: hash = ((hash << 5) - hash) + char;
\* hash = hash & hash
RECURSIVE RollingHash(_, _)
RollingHash(text, n) ==
    IF n = 0 THEN Int32(0, 0)
    ELSE LET hash == RollingHash(text, n - 1)
         IN  SubAdd(ShiftLeft5(hash), hash, CharCode(text[n]))

\* Math.abs(hash): a natural number up to 2^31, kept as two halves
Abs(x) ==
    IF x.hi < HALF \div 2 THEN x
    ELSE IF x.lo = 0 THEN Int32(HALF - x.hi, 0)
    ELSE Int32((HALF - 1) - x.hi, HALF - x.lo)

Base36Digits ==
    <<"0", "1", "2", "3", "4", "5", "6", "7", "8", "9", "a", "b", "c", "d", "e", "f", "g", "h",
      "i", "j", "k", "l", "m", "n", "o", "p", "q", "r", "s", "t", "u", "v", "w", "x", "y", "z">>

\* quotient and remainder of a natural number in two halves divided by 36
Div36(x) == Int32(x.hi \div 36, ((x.hi % 36) * HALF + x.lo) \div 36)

Mod36(x) == ((x.hi % 36) * HALF + x.lo) % 36

\* Number.prototype.toString(36) of a natural number
RECURSIVE ToString36(_)
ToString36(x) ==
    IF x.hi = 0 /\ x.lo < 36 THEN <<Base36Digits[x.lo + 1]>>
    ELSE Append(ToString36(Div36(x)), Base36Digits[Mod36(x) + 1])

\* generateDummyHash(text): Math.abs(hash).toString(36).substring(0, 8)
GenerateDummyHash(text) == Take(ToString36(Abs(RollingHash(text, Len(text)))), 8)

\* generateFallbackSignature(originalText, extraction): "fallback_" and the
\* first 32 characters of the base64 text of `${originalText}-${title}-${now}`,
\* which encode its first 24 characters
GenerateFallbackSignature(originalText, title, now) ==
    <<"fallback_">> \o Take(originalText \o <<"-">> \o title \o <<"-", now>>, 24)

(***************************************************************************)
(* GeminiService.analyzeThought                                            *)
(***************************************************************************)
\* text.substring(0, 50) of the local fallback
TITLE_MAX == 50

Intents == {"new_task", "query", "delete_task", "update_task"}

\* what an object in the provider's answer decodes to: the extractions field
\* (hasExtractions: the field is there), the intent and title fields of the
\* object itself, and thought_signature ("" and EMPTY: missing)
AnObj(hasExtractions, extractions, intent, title, sig) ==
    [hasExtractions |-> hasExtractions, extractions |-> extractions, intent |-> intent,
     title |-> title, thought_signature |-> sig]

NoAnObj == AnObj(FALSE, <<>>, "", EMPTY, EMPTY)

AnalysisObjects ==
    {AnObj(TRUE, <<Extraction("query", EMPTY, EMPTY), Extraction("new_task", EMPTY, <<"a">>)>>,
           "", EMPTY, <<"s", "1">>),
     AnObj(TRUE, <<>>, "", EMPTY, EMPTY),
     AnObj(TRUE, <<Extraction("", EMPTY, EMPTY)>>, "", EMPTY, EMPTY),
     AnObj(FALSE, <<>>, "new_task", <<"a">>, EMPTY),
     NoAnObj}

AnalysisTokens ==
    {Tok(l, NoAnObj) : l \in Lexemes \ {"object"}} \cup {Tok("object", o) : o \in AnalysisObjects}

\* the value analyzeThought returns (fallback: it is the local fallback), or
\* the error it throws
AnalysisReturn(extractions, sig, fallback) ==
    [threw |-> FALSE, extractions |-> extractions, thought_signature |-> sig,
     fallback |-> fallback]

AnalysisThrow == [threw |-> TRUE, extractions |-> <<>>, thought_signature |-> EMPTY,
                  fallback |-> FALSE]

\* the local fallback of the multi-extraction version: one new_task extraction
\* titled with the first 50 characters of the text
LocalFallback(text) ==
    AnalysisReturn(<<Extraction("new_task", EMPTY, Take(text, TITLE_MAX))>>,
                   GenerateDummyHash(text), TRUE)

\* cleanResponse: the group of the json fence, else of the generic fence, else
\* the whole text
CleanResponse(t) ==
    LET a == JsonCodeBlock(t)
        b == GenericCodeBlock(t, Tok("prose", NoAnObj))
    IN  IF a.matched THEN a.group ELSE IF b.matched THEN b.group ELSE t

\* analyzeThought, multi-extraction version; providerOk: generateContent and
\* response.text() return, t: the text.  A failing JSON.parse and a property
\* read of null both end in the catch block, which returns the local fallback.
AnalyzeThought(text, providerOk, t) ==
    IF ~providerOk THEN LocalFallback(text)
    ELSE LET parsedResult == JsonParse(CleanResponse(t))
         IN  IF ~parsedResult.ok \/ parsedResult.isNull THEN LocalFallback(text)
             ELSE AnalysisReturn(
                      IF parsedResult.val.hasExtractions THEN parsedResult.val.extractions
                      ELSE <<>>,
                      IF parsedResult.val.thought_signature # EMPTY
                      THEN parsedResult.val.thought_signature
                      ELSE GenerateDummyHash(text),
                      FALSE)

\* analyzeThought, single-extraction version; metaSig: the signature found in
\* the response metadata (EMPTY: none), now: Date.now().  The decoded object is
\* the extraction; every failure is rethrown by the outer catch, and so is the
\* TypeError of reading extraction.title of null.
AnalyzeThoughtSingle(text, providerOk, t, metaSig, now) ==
    IF ~providerOk THEN AnalysisThrow
    ELSE LET direct == JsonParse(t)
             jsonString == ExtractJsonString(t, Tok("prose", NoAnObj))
             inner == JsonParse(jsonString)
             parsed == IF direct.ok THEN direct
                       ELSE IF Len(jsonString) > 0 THEN inner
                       ELSE [ok |-> FALSE, isNull |-> FALSE, val |-> <<>>]
         IN  IF ~parsed.ok THEN AnalysisThrow
             ELSE IF metaSig # EMPTY
                 THEN AnalysisReturn(
                          IF parsed.isNull THEN <<Extraction("", EMPTY, EMPTY)>>
                          ELSE <<Extraction(parsed.val.intent, EMPTY, parsed.val.title)>>,
                          metaSig, FALSE)
             ELSE IF parsed.isNull THEN AnalysisThrow
             ELSE AnalysisReturn(<<Extraction(parsed.val.intent, EMPTY, parsed.val.title)>>,
                                 GenerateFallbackSignature(text, parsed.val.title, now), FALSE)

(***************************************************************************)
(* Calls of single service methods: one behaviour is a sequence of calls,  *)
(* each with arguments and a provider answer drawn from bounded sets       *)
(***************************************************************************)
\* longest provider output, in lexemes
MaxTokens == 3

\* longest sequence of thread updates of one record
MaxUpdates == 2

TextsOver(tokens) == UNION {[1..n -> tokens] : n \in 0..MaxTokens}

handlerVars == <<storeVars, pc, ctlVars, outcome, loopVars, threadVars, msgVars, providerTurns,
                 flagVars, legacyVars>>

ParserInit == Init /\ pages = <<>>

\* the provider's answer carried no thought_signature of its own: the call
\* failed, or the value the cascade decoded has none
SignatureOmitted(reply, providerOk, t) ==
    \/ ~providerOk
    \/ ParseUpdate(t, reply).isNull
    \/ ParseUpdate(t, reply).val.thought_signature = ""

\* a thread update calls updateWithContext; in a sequence of updates of one
\* record the signature passed is the one the update before it returned
\* (first: the signature the sequence started with; omittedAll: no answer of
\* the sequence carried a signature; n: the number of the update)
PS_UpdateWithContext ==
    /\ svcCall.op \in {"none", "returned"}
    /\ svcCall.op = "returned" => svcCall.n < MaxUpdates
    /\ \E sig \in (IF svcCall.op = "none" THEN Signatures ELSE {svcCall.carried}),
          reply \in Replies, providerOk \in BOOLEAN :
       \E t \in (IF providerOk THEN TextsOver(UpdateTokens) ELSE {<<>>}) :
        /\ svcCall' = [op |-> "updateWithContext", originalSignature |-> sig, reply |-> reply,
                       providerOk |-> providerOk, text |-> t,
                       first |-> IF svcCall.op = "none" THEN sig ELSE svcCall.first,
                       omittedAll |-> /\ SignatureOmitted(reply, providerOk, t)
                                      /\ (svcCall.op = "returned" => svcCall.omittedAll),
                       n |-> IF svcCall.op = "none" THEN 1 ELSE svcCall.n + 1]
        /\ svcResult' = UpdateWithContext(sig, reply, providerOk, t)
    /\ UNCHANGED handlerVars

\* updateWithContext has returned to its caller
PS_UpdateReturn ==
    /\ svcCall.op = "updateWithContext"
    /\ ~svcResult.threw
    /\ svcCall' = [op |-> "returned", carried |-> svcResult.thought_signature,
                   first |-> svcCall.first, omittedAll |-> svcCall.omittedAll, n |-> svcCall.n]
    /\ UNCHANGED <<svcResult, handlerVars>>

\* longest text, in characters, that is built from the whole alphabet
MaxChars == 2

\* n times the character z
Zs(n) == [i \in 1..n |-> "z"]

\* the texts a signature is derived from: the short ones, and two that are long
\* enough for the hash to leave the 32-bit range
HashTexts ==
    UNION {[1..n -> {"A", "a", "B", "z"}] : n \in 0..MaxChars} \cup {Zs(6), Zs(7)}

\* the message texts analyzeThought is called with: three of one line, and one
\* of two lines, each line an item of its own
MessageTexts == {<<"A", "a">>, <<"B", "B">>, Zs(7), <<"A", "\n", "B">>}

\* handleCapture calls analyzeThought (multi-extraction version)
PS_AnalyzeThought ==
    /\ svcCall.op = "none"
    /\ \E text \in MessageTexts, providerOk \in BOOLEAN :
       \E t \in (IF providerOk THEN TextsOver(AnalysisTokens) ELSE {<<>>}) :
        /\ svcCall' = [op |-> "analyzeThought", text |-> text, providerOk |-> providerOk,
                       response |-> t]
        /\ svcResult' = AnalyzeThought(text, providerOk, t)
    /\ UNCHANGED handlerVars

\* handleCapture calls analyzeThought (single-extraction version)
PS_AnalyzeThoughtSingle ==
    /\ svcCall.op = "none"
    /\ \E text \in MessageTexts, providerOk \in BOOLEAN, metaSig \in {EMPTY, <<"m">>},
          now \in {"t1", "t2"} :
       \E t \in (IF providerOk THEN TextsOver(AnalysisTokens) ELSE {<<>>}) :
        /\ svcCall' = [op |-> "analyzeThoughtSingle", text |-> text, providerOk |-> providerOk,
                       response |-> t]
        /\ svcResult' = AnalyzeThoughtSingle(text, providerOk, t, metaSig, now)
    /\ UNCHANGED handlerVars

\* two calls of generateDummyHash, and the first one made again
PS_GenerateDummyHash ==
    /\ svcCall.op = "none"
    /\ \E text1 \in HashTexts, text2 \in HashTexts :
        /\ svcCall' = [op |-> "generateDummyHash", text1 |-> text1, text2 |-> text2]
        /\ svcResult' = [first |-> GenerateDummyHash(text1), second |-> GenerateDummyHash(text2),
                         again |-> GenerateDummyHash(text1)]
    /\ UNCHANGED handlerVars

ParserNext ==
    \/ PS_UpdateWithContext \/ PS_UpdateReturn
    \/ PS_AnalyzeThought \/ PS_AnalyzeThoughtSingle \/ PS_GenerateDummyHash

ParserSpec == ParserInit /\ [][ParserNext]_vars

(***************************************************************************)
(* Calls of NotionService.searchTasks on stores of any size up to MaxStored *)
(***************************************************************************)
\* largest number of records in the store that is searched
MaxStored == 16

\* "ALL": the sentinel as the provider may spell it
ALL_UPPER == <<"A", "L", "L">>

serviceFrame == <<dataSourceId, pc, ctlVars, outcome, loopVars, threadVars, msgVars,
                  providerTurns, flagVars, legacyVars>>

SearchInit == Init /\ pages = <<>>

\* an earlier capture left one more record in the store
SS_AddPage ==
    /\ svcCall.op = "none"
    /\ Len(pages) < MaxStored
    /\ \E st \in {"Todo", "Done"} :
        pages' = Append(pages, [NewPage(STORED, WORK, "sig0", OldTs) EXCEPT !.status = st])
    /\ UNCHANGED <<pureVars, serviceFrame>>

\* searchTasks(query); ok: databases.query answers (the catch block returns [])
SS_SearchTasks ==
    /\ svcCall.op = "none"
    /\ \E query \in {ALL, ALL_UPPER, EVERYTHING, EMPTY}, ok \in BOOLEAN :
        /\ svcCall' = [op |-> "searchTasks", query |-> query, ok |-> ok]
        /\ svcResult' = TasksResult(IF ok THEN SearchTasks(pages, query) ELSE <<>>)
    /\ UNCHANGED <<pages, serviceFrame>>

SearchNext == SS_AddPage \/ SS_SearchTasks

SearchSpec == SearchInit /\ [][SearchNext]_vars

(***************************************************************************)
(* The archive_tasks tool call and the delete_task extraction in front of  *)
(* stores of any size up to MaxStored                                      *)
(***************************************************************************)
\* a title that does not contain the search term
OTHER_TITLE == <<"a">>

\* the records whose Title contains the search term
Matches == {i \in DOMAIN pages : Contains(pages[i].title, STORED)}

\* earlier captures left one more record in the store: the first record may
\* carry another title, the later ones carry the title that is searched
AR_AddPage ==
    /\ pc = "idle"
    /\ Len(pages) < MaxStored
    /\ \E title \in (IF pages = <<>> THEN {STORED, OTHER_TITLE} ELSE {STORED}) :
        pages' = Append(pages, NewPage(title, WORK, "sig0", OldTs))
    /\ UNCHANGED <<pureVars, serviceFrame>>

\* handleCapture (agentic version) has come to `case "archive_tasks"` of the
\* only call of the first provider response
AR_ArchiveTasksCall ==
    /\ pc = "idle"
    /\ handler' = "handleCapture"
    /\ response' = [calls |-> <<Call("archive_tasks", STORED, NoPage, "")>>, text |-> ""]
    /\ functionCalls' = response'.calls
    /\ callCount' = 1
    /\ callIdx' = 1
    /\ providerTurns' = 1
    /\ posted' = 1
    /\ updateText' = Executing("archive_tasks")
    /\ providerCalled' = TRUE
    /\ gatewayCalled' = TRUE
    /\ pc' = "hc_exec"
    /\ UNCHANGED <<pureVars, legacyVars, storeVars, inbound, event, outcome, functionResponses,
                   tasksToArchive, archIdx, opLog, threadVars, finalDelivered, failureMsgs,
                   warnMsgs, storeCalled>>

\* handleCapture (multi-extraction version) has come to the delete_task branch
\* of the only extraction
AR_DeleteTaskExtraction ==
    /\ pc = "idle"
    /\ handler' = "handleCapture"
    /\ geminiResponse' = [extractions |-> <<Extraction("delete_task", STORED, EMPTY)>>,
                          thought_signature |-> "sig0"]
    /\ extIdx' = 1
    /\ posted' = 1
    /\ providerCalled' = TRUE
    /\ gatewayCalled' = TRUE
    /\ pc' = "lc_delete"
    /\ UNCHANGED <<pureVars, storeVars, inbound, event, outcome, loopVars, threadVars,
                   updateText, finalDelivered, failureMsgs, warnMsgs, providerTurns,
                   storeCalled>>

ArchiveNext ==
    \/ AR_AddPage \/ AR_ArchiveTasksCall \/ AR_DeleteTaskExtraction
    \/ HC_ArchiveSearch \/ HC_Archive
    \/ LC_DeleteSearch \/ LC_DeleteMiss \/ LC_Archive

ArchiveSpec == SearchInit /\ [][ArchiveNext]_vars

(***************************************************************************)
(* archive_tasks called with any searchTerm                                *)
(***************************************************************************)
\* the searchTerm of the call: a title, a category, a text no record holds,
\* the broad-search word, and EMPTY for a term that is "" or absent
\* (query?.toLowerCase() || "" is "" for both)
SearchTerms == {STORED, WORK, MISSING, ALL, EMPTY}

\* handleCapture (agentic version) has come to `case "archive_tasks"` of the
\* only call of the first provider response
AT_ArchiveTasksCall ==
    /\ pc = "idle"
    /\ handler' = "handleCapture"
    /\ \E term \in SearchTerms :
        response' = [calls |-> <<Call("archive_tasks", term, NoPage, "")>>, text |-> ""]
    /\ functionCalls' = response'.calls
    /\ callCount' = 1
    /\ callIdx' = 1
    /\ providerTurns' = 1
    /\ posted' = 1
    /\ updateText' = Executing("archive_tasks")
    /\ providerCalled' = TRUE
    /\ gatewayCalled' = TRUE
    /\ pc' = "hc_exec"
    /\ UNCHANGED <<pureVars, legacyVars, storeVars, inbound, event, outcome, functionResponses,
                   tasksToArchive, archIdx, opLog, threadVars, finalDelivered, failureMsgs,
                   warnMsgs, storeCalled>>

ArchiveTermNext == AR_AddPage \/ AT_ArchiveTasksCall \/ HC_ArchiveSearch \/ HC_Archive

ArchiveTermSpec == SearchInit /\ [][ArchiveTermNext]_vars

(***************************************************************************)
(* A thread reply on a store of several records                            *)
(***************************************************************************)
\* the records the store of ThreadSpec holds
MaxThreadPages == 2

\* earlier captures left one more record in the store: of the thread that is
\* replied to or of another thread, with or without a signature
TS_AddPage ==
    /\ pc = "idle"
    /\ Len(pages) < MaxThreadPages
    /\ \E ts \in {OldTs, NewTs}, sig \in {"", "sig0"} :
        pages' = Append(pages, NewPage(<<"b">>, WORK, sig, ts))
    /\ UNCHANGED <<pureVars, serviceFrame>>

ThreadNext == TS_AddPage \/ Receive \/ Dispatch \/ HandleThreadUpdate

ThreadSpec == SearchInit /\ [][ThreadNext]_vars

(***************************************************************************)
(* Concurrent calls of NotionService.discoverDataSource on the one         *)
(* NotionService of the process                                            *)
(***************************************************************************)
\* the calls of discoverDataSource the process makes
MaxCallers == 4

Callers == 1 .. MaxCallers

\* the identifier of the first data source of the database
DATA_SOURCE == "ds1"

\* CacheHit when the cached identifier is never looked at
CacheHit_Never(cached) == FALSE

\* if (this.dataSourceId) return this.dataSourceId
CacheHit(cached) == cached # ""

\* what the call returns once databases.retrieve has settled: dataSources[0].id
\* when data_sources is not empty, null when it is empty or the call threw
Discovered(retrieved) == IF retrieved = "found" THEN DATA_SOURCE ELSE ""

\* this.dataSourceId once databases.retrieve has settled: assigned only in the
\* branch dataSources.length > 0
CacheAfter(cached, retrieved) == IF retrieved = "found" THEN DATA_SOURCE ELSE cached

\* export const notionService = new NotionService(): dataSourceId is null and
\* no call of discoverDataSource has been made
DS_Construct ==
    /\ svcCall.op = "none"
    /\ svcCall' = [op |-> "discoverDataSource",
                   at |-> [c \in Callers |-> "idle"],
                   cachedAtCall |-> [c \in Callers |-> ""]]
    /\ svcResult' = [kind |-> "discoverDataSource",
                     value |-> [c \in Callers |-> ""],
                     retrieves |-> [c \in Callers |-> 0],
                     outcome |-> [c \in Callers |-> "none"]]
    /\ UNCHANGED <<pages, serviceFrame>>

\* a caller enters discoverDataSource: it returns the cached identifier, or it
\* calls databases.retrieve and waits (other callers run while it waits)
DS_Call(c) ==
    /\ svcCall.op = "discoverDataSource"
    /\ svcCall.at[c] = "idle"
    /\ IF CacheHit(dataSourceId)
       THEN /\ svcCall' = [svcCall EXCEPT !.at[c] = "returned", !.cachedAtCall[c] = dataSourceId]
            /\ svcResult' = [svcResult EXCEPT !.value[c] = dataSourceId]
       ELSE /\ svcCall' = [svcCall EXCEPT !.at[c] = "retrieve", !.cachedAtCall[c] = dataSourceId]
            /\ svcResult' = [svcResult EXCEPT !.retrieves[c] = @ + 1]
    /\ UNCHANGED <<pages, serviceFrame>>

\* databases.retrieve of a waiting caller settles: the identifier is stored and
\* returned, or null is returned and nothing is stored
DS_Retrieved(c) ==
    /\ svcCall.op = "discoverDataSource"
    /\ svcCall.at[c] = "retrieve"
    /\ \E d \in DiscoveryOutcomes :
        /\ dataSourceId' = CacheAfter(dataSourceId, d)
        /\ svcResult' = [svcResult EXCEPT !.value[c] = Discovered(d), !.outcome[c] = d]
    /\ svcCall' = [svcCall EXCEPT !.at[c] = "returned"]
    /\ UNCHANGED <<pages, pc, ctlVars, outcome, loopVars, threadVars, msgVars, providerTurns,
                   flagVars, legacyVars>>

DiscoveryNext ==
    \/ DS_Construct
    \/ \E c \in Callers : DS_Call(c)
    \/ \E c \in Callers : DS_Retrieved(c)

DiscoverySpec == ParserInit /\ [][DiscoveryNext]_vars

(***************************************************************************)
(* Calls of the NotionService lookups: findPageByThreadTS, findPageByTitle,*)
(* queryDueTasks, queryModifiedToday                                       *)
(***************************************************************************)
\* largest number of records in the store of LookupSpec
MaxLookupPages == 2

\* calendar days: yesterday, today, tomorrow
Days == {"d0", "d1", "d2"}

DayNumber(d) == CASE d = "d0" -> 0 [] d = "d1" -> 1 [] d = "d2" -> 2

\* const today = new Date().toISOString().split("T")[0]
TODAY == "d1"

\* the two query endpoints of the store
DATA_SOURCES_QUERY == "data_sources/:id/query"

DATABASES_QUERY == "databases.query"

\* a record with its Due Date, Status, Created Time and Last Edited Time
LookupPage(due, status, created, edited) ==
    [created |-> created, edited |-> edited]
        @@ [NewPage(STORED, WORK, "sig0", OldTs) EXCEPT !.dueDate = due, !.status = status]

\* (a record is never edited before it is created)
LookupPages ==
    {p \in {LookupPage(due, status, created, edited) :
                due \in Days \cup {""}, status \in {"Todo", "Done"},
                created \in {"d0", "d1"}, edited \in {"d0", "d1"}} :
        DayNumber(p.created) <= DayNumber(p.edited)}

\* queryDueTasks: "Due Date" on_or_before today and Status does_not_equal Done
DueFilter(page, today) ==
    /\ page.dueDate # ""
    /\ DayNumber(page.dueDate) <= DayNumber(today)
    /\ page.status # "Done"

\* the query of queryDueTasks when it answers: the matching records by Due Date
\* ascending (the records of the model all carry the same Priority)
QueryDue(ps, today) ==
    LET due(d) == AscSeq({i \in DOMAIN ps : ~ps[i].archived /\ DueFilter(ps[i], today)
                                            /\ ps[i].dueDate = d}, Len(ps))
    IN  due("d0") \o due("d1") \o due("d2")

\* queryModifiedToday: Created Time or Last Edited Time on_or_after todayStart
ModifiedFilter(page, today) ==
    \/ DayNumber(page.created) >= DayNumber(today)
    \/ DayNumber(page.edited) >= DayNumber(today)

\* the query of queryModifiedToday when it answers: the matching records by
\* Created Time descending
QueryModified(ps, today) ==
    LET made(d) == AscSeq({i \in DOMAIN ps : ~ps[i].archived /\ ModifiedFilter(ps[i], today)
                                             /\ ps[i].created = d}, Len(ps))
    IN  made("d2") \o made("d1") \o made("d0")

\* LookupFallback when the catch block throws the error on
LookupFallback_Rethrows(oldOk, answer, nothing) ==
    [value |-> IF oldOk THEN answer ELSE nothing, queries |-> <<DATABASES_QUERY>>,
     threw |-> ~oldOk]

\* the ...Fallback methods: try { databases.query } catch { return null / [] }
LookupFallback(oldOk, answer, nothing) ==
    [value |-> IF oldOk THEN answer ELSE nothing, queries |-> <<DATABASES_QUERY>>,
     threw |-> FALSE]

\* the body shared by the four lookups: if (!dataSourceId) return fallback;
\* try { data_sources query } catch { return fallback }
Lookup(dsId, newOk, oldOk, answer, nothing) ==
    IF dsId = "" THEN LookupFallback(oldOk, answer, nothing)
    ELSE IF newOk
         THEN [value |-> answer, queries |-> <<DATA_SOURCES_QUERY>>, threw |-> FALSE]
         ELSE [LookupFallback(oldOk, answer, nothing) EXCEPT
                    !.queries = <<DATA_SOURCES_QUERY>> \o @]

FindPageByThreadTSCall(ps, threadTS, dsId, newOk, oldOk) ==
    Lookup(dsId, newOk, oldOk, QueryByThreadTS(ps, threadTS), NoPage)

FindPageByTitleCall(ps, partialTitle, dsId, newOk, oldOk) ==
    Lookup(dsId, newOk, oldOk, QueryByTitle(ps, partialTitle), NoPage)

QueryDueTasks(ps, dsId, newOk, oldOk) ==
    Lookup(dsId, newOk, oldOk, QueryDue(ps, TODAY), <<>>)

QueryModifiedToday(ps, dsId, newOk, oldOk) ==
    Lookup(dsId, newOk, oldOk, QueryModified(ps, TODAY), <<>>)

\* earlier captures and edits left one more record in the store
LK_AddPage ==
    /\ svcCall.op = "none"
    /\ Len(pages) < MaxLookupPages
    /\ \E p \in LookupPages : pages' = Append(pages, p)
    /\ UNCHANGED <<pureVars, serviceFrame>>

\* an earlier lookup discovered the identifier and cached it
LK_Discovered ==
    /\ svcCall.op = "none"
    /\ dataSourceId = ""
    /\ dataSourceId' = DiscoverDataSource(dataSourceId, "found")
    /\ UNCHANGED <<pages, pureVars, pc, ctlVars, outcome, loopVars, threadVars, msgVars,
                   providerTurns, flagVars, legacyVars>>

\* the call that is recorded: discoverDataSource returned dsId, the
\* data_sources query answers or throws (newOk), databases.query answers or
\* throws (oldOk)
LookupArgs(op, arg, dsId, newOk, oldOk) ==
    [op |-> op, arg |-> arg, dsId |-> dsId, newOk |-> newOk, oldOk |-> oldOk]

LK_FindPageByThreadTS ==
    /\ svcCall.op = "none"
    /\ \E threadTS \in {OldTs, NewTs}, d \in DiscoveryOutcomes, newOk, oldOk \in BOOLEAN :
        /\ dataSourceId' = DiscoverDataSource(dataSourceId, d)
        /\ svcCall' = LookupArgs("findPageByThreadTS", <<threadTS>>, dataSourceId', newOk, oldOk)
        /\ svcResult' = FindPageByThreadTSCall(pages, threadTS, dataSourceId', newOk, oldOk)
    /\ UNCHANGED <<pages, pc, ctlVars, outcome, loopVars, threadVars, msgVars, providerTurns,
                   flagVars, legacyVars>>

LK_FindPageByTitle ==
    /\ svcCall.op = "none"
    /\ \E partialTitle \in {STORED, MISSING}, d \in DiscoveryOutcomes, newOk, oldOk \in BOOLEAN :
        /\ dataSourceId' = DiscoverDataSource(dataSourceId, d)
        /\ svcCall' = LookupArgs("findPageByTitle", partialTitle, dataSourceId', newOk, oldOk)
        /\ svcResult' = FindPageByTitleCall(pages, partialTitle, dataSourceId', newOk, oldOk)
    /\ UNCHANGED <<pages, pc, ctlVars, outcome, loopVars, threadVars, msgVars, providerTurns,
                   flagVars, legacyVars>>

LK_QueryDueTasks ==
    /\ svcCall.op = "none"
    /\ \E d \in DiscoveryOutcomes, newOk, oldOk \in BOOLEAN :
        /\ dataSourceId' = DiscoverDataSource(dataSourceId, d)
        /\ svcCall' = LookupArgs("queryDueTasks", <<>>, dataSourceId', newOk, oldOk)
        /\ svcResult' = QueryDueTasks(pages, dataSourceId', newOk, oldOk)
    /\ UNCHANGED <<pages, pc, ctlVars, outcome, loopVars, threadVars, msgVars, providerTurns,
                   flagVars, legacyVars>>

LK_QueryModifiedToday ==
    /\ svcCall.op = "none"
    /\ \E d \in DiscoveryOutcomes, newOk, oldOk \in BOOLEAN :
        /\ dataSourceId' = DiscoverDataSource(dataSourceId, d)
        /\ svcCall' = LookupArgs("queryModifiedToday", <<>>, dataSourceId', newOk, oldOk)
        /\ svcResult' = QueryModifiedToday(pages, dataSourceId', newOk, oldOk)
    /\ UNCHANGED <<pages, pc, ctlVars, outcome, loopVars, threadVars, msgVars, providerTurns,
                   flagVars, legacyVars>>

LookupNext ==
    \/ LK_AddPage \/ LK_Discovered
    \/ LK_FindPageByThreadTS \/ LK_FindPageByTitle
    \/ LK_QueryDueTasks \/ LK_QueryModifiedToday

LookupSpec == SearchInit /\ [][LookupNext]_vars

(***************************************************************************)
(* Two inbound messages processed concurrently by handleCapture (agentic   *)
(* version): the local variables of each invocation, the one NotionService *)
(* of the process, the store and the channel                               *)
(***************************************************************************)
\* the inbound messages in flight together
MaxMessages == 2

\* the provider turns of one message in which tools may be requested
MaxRounds == 2

\* the records the store of ConcurrentSpec accepts
MaxConcPages == 2

Messages == 1 .. MaxMessages

\* event.ts of message m
EventTs(m) == NewTs + m - 1

\* the responses of the provider: one tool call, or the final text ("")
ConcCalls == {"create_task", "search_tasks"}

\* the local variables of one invocation of handleCapture before its first
\* statement: streamResult.ts, response and chat (its turns), callCount,
\* functionResponses; retrieves counts its databases.retrieve calls and
\* cacheFrom names the message that stored the identifier it was handed
NewLocals ==
    [at |-> "entry", ts |-> NoTs, response |-> "", turns |-> 0, callCount |-> 0,
     functionResponses |-> <<>>, retrieves |-> 0, cacheFrom |-> 0]

\* the local variables of the invocation for message m
Loc(m) == svcCall.of[m]

\* the channel: who posted each message and who edited it last (0: no one)
Chan == svcResult

\* StatusTs when the id of the status message is kept in one place for the
\* whole process: the id of the message posted last
StatusTs_Shared(m) == Len(Chan.poster)

\* streamResult.ts: the id of the status message of this invocation
StatusTs(m) == Loc(m).ts

\* the variables no step of ConcurrentSpec touches
concFrame ==
    <<pc, ctlVars, outcome, loopVars, threadVars, updateText, finalDelivered, warnMsgs,
      providerTurns, flagVars, legacyVars>>

\* Bolt hands both events to handleCapture: two invocations are in flight
CM_Receive ==
    /\ svcCall.op = "none"
    /\ svcCall' = [op |-> "messages", of |-> [m \in Messages |-> NewLocals]]
    /\ svcResult' = [kind |-> "channel", poster |-> <<>>, editor |-> <<>>, cachedBy |-> 0]
    /\ UNCHANGED <<pages, dataSourceId, posted, failureMsgs, concFrame>>

\* the change of the local variables of message m
SetLoc(m, r) == svcCall' = [svcCall EXCEPT !.of[m] = r]

\* slackService.updateMessage(channel, streamResult.ts, ...): failures are
\* swallowed
EditStatus(m) ==
    \E ok \in BOOLEAN :
        svcResult' = IF ok /\ StatusTs(m) \in DOMAIN Chan.editor
                     THEN [svcResult EXCEPT !.editor[StatusTs(m)] = m]
                     ELSE svcResult

\* startStreamingResponse: chat.postMessage, or the catch block
CM_Entry(m) ==
    /\ svcCall.op = "messages"
    /\ Loc(m).at = "entry"
    /\ \E ok \in BOOLEAN :
        IF ok
        THEN /\ posted' = posted + 1
             /\ svcResult' = [svcResult EXCEPT !.poster = Append(@, m), !.editor = Append(@, 0)]
             /\ SetLoc(m, [Loc(m) EXCEPT !.at = "thinking", !.ts = Len(Chan.poster) + 1])
        ELSE /\ SetLoc(m, [Loc(m) EXCEPT !.at = "catch"])
             /\ UNCHANGED <<posted, svcResult>>
    /\ UNCHANGED <<pages, dataSourceId, failureMsgs, concFrame>>

\* updateMessage("Thinking agentically...")
CM_Thinking(m) ==
    /\ svcCall.op = "messages"
    /\ Loc(m).at = "thinking"
    /\ EditStatus(m)
    /\ SetLoc(m, [Loc(m) EXCEPT !.at = "start"])
    /\ UNCHANGED <<pages, dataSourceId, posted, failureMsgs, concFrame>>

\* startAgenticChat(text) and chat.sendMessage(functionResponses): the next
\* response of the chat of this invocation, or the catch block
CM_Provider(m) ==
    /\ svcCall.op = "messages"
    /\ Loc(m).at \in {"start", "send"}
    /\ \/ \E r \in (IF Loc(m).turns < MaxRounds THEN ConcCalls \cup {""} ELSE {""}) :
            SetLoc(m, [Loc(m) EXCEPT !.at = "loop", !.response = r, !.turns = @ + 1])
       \/ SetLoc(m, [Loc(m) EXCEPT !.at = "catch"])
    /\ UNCHANGED <<pages, dataSourceId, posted, failureMsgs, svcResult, concFrame>>

\* while (response.functionCalls()?.length && callCount < MAX_CALLS)
CM_Loop(m) ==
    /\ svcCall.op = "messages"
    /\ Loc(m).at = "loop"
    /\ IF Loc(m).response # "" /\ Loc(m).callCount < MAX_CALLS
       THEN SetLoc(m, [Loc(m) EXCEPT !.at = "notify", !.callCount = @ + 1,
                                     !.functionResponses = <<>>])
       ELSE SetLoc(m, [Loc(m) EXCEPT !.at = "final"])
    /\ UNCHANGED <<pages, dataSourceId, posted, failureMsgs, svcResult, concFrame>>

\* updateMessage("Executing: ..."), then the switch
CM_Notify(m) ==
    /\ svcCall.op = "messages"
    /\ Loc(m).at = "notify"
    /\ EditStatus(m)
    /\ SetLoc(m, [Loc(m) EXCEPT !.at = IF Loc(m).response = "create_task"
                                       THEN "discover" ELSE "search"])
    /\ UNCHANGED <<pages, dataSourceId, posted, failureMsgs, concFrame>>

\* case "search_tasks": searchTasks("all") reads the store
CM_Search(m) ==
    /\ svcCall.op = "messages"
    /\ Loc(m).at = "search"
    /\ \E ok \in BOOLEAN :
        SetLoc(m, [Loc(m) EXCEPT
                    !.at = "send",
                    !.functionResponses =
                        PushResponse(@, "search_tasks",
                                     TasksResult(IF ok THEN SearchTasks(pages, ALL) ELSE <<>>))])
    /\ UNCHANGED <<pages, dataSourceId, posted, failureMsgs, svcResult, concFrame>>

\* case "create_task": createPageFromThought enters discoverDataSource, which
\* returns the cached identifier or calls databases.retrieve and waits
CM_Discover(m) ==
    /\ svcCall.op = "messages"
    /\ Loc(m).at = "discover"
    /\ IF CacheHit(dataSourceId)
       THEN SetLoc(m, [Loc(m) EXCEPT !.at = "create", !.cacheFrom = Chan.cachedBy])
       ELSE SetLoc(m, [Loc(m) EXCEPT !.at = "retrieve", !.retrieves = @ + 1])
    /\ UNCHANGED <<pages, dataSourceId, posted, failureMsgs, svcResult, concFrame>>

\* databases.retrieve settles: the identifier is stored in the NotionService
CM_Retrieved(m) ==
    /\ svcCall.op = "messages"
    /\ Loc(m).at = "retrieve"
    /\ \E d \in DiscoveryOutcomes :
        /\ dataSourceId' = CacheAfter(dataSourceId, d)
        /\ svcResult' = IF d = "found" THEN [svcResult EXCEPT !.cachedBy = m] ELSE svcResult
    /\ SetLoc(m, [Loc(m) EXCEPT !.at = "create"])
    /\ UNCHANGED <<pages, posted, failureMsgs, concFrame>>

\* pages.create: the result or the caught error is pushed
CM_Create(m) ==
    /\ svcCall.op = "messages"
    /\ Loc(m).at = "create"
    /\ \E ok \in (IF Len(pages) < MaxConcPages THEN BOOLEAN ELSE {FALSE}) :
        IF ok
        THEN /\ pages' = Append(pages, NewPage(<<"a">>, WORK, "", EventTs(m)))
             /\ SetLoc(m, [Loc(m) EXCEPT
                            !.at = "send",
                            !.functionResponses =
                                PushResponse(@, "create_task", CreatedResult(Len(pages) + 1))])
        ELSE /\ pages' = pages
             /\ SetLoc(m, [Loc(m) EXCEPT
                            !.at = "send",
                            !.functionResponses =
                                PushResponse(@, "create_task", ErrorResult("create failed"))])
    /\ UNCHANGED <<dataSourceId, posted, failureMsgs, svcResult, concFrame>>

\* updateMessage(finalAnswer)
CM_Final(m) ==
    /\ svcCall.op = "messages"
    /\ Loc(m).at = "final"
    /\ EditStatus(m)
    /\ SetLoc(m, [Loc(m) EXCEPT !.at = "done"])
    /\ UNCHANGED <<pages, dataSourceId, posted, failureMsgs, concFrame>>

\* catch (error): sendMessage("Failed to capture thought")
CM_Catch(m) ==
    /\ svcCall.op = "messages"
    /\ Loc(m).at = "catch"
    /\ \E ok \in BOOLEAN :
        IF ok
        THEN /\ posted' = posted + 1
             /\ failureMsgs' = failureMsgs + 1
             /\ svcResult' = [svcResult EXCEPT !.poster = Append(@, m), !.editor = Append(@, 0)]
        ELSE UNCHANGED <<posted, failureMsgs, svcResult>>
    /\ SetLoc(m, [Loc(m) EXCEPT !.at = "done"])
    /\ UNCHANGED <<pages, dataSourceId, concFrame>>

ConcurrentNext ==
    \/ CM_Receive
    \/ \E m \in Messages :
        \/ CM_Entry(m) \/ CM_Thinking(m) \/ CM_Provider(m) \/ CM_Loop(m) \/ CM_Notify(m)
        \/ CM_Search(m) \/ CM_Discover(m) \/ CM_Retrieved(m) \/ CM_Create(m)
        \/ CM_Final(m) \/ CM_Catch(m)

ConcurrentSpec == SearchInit /\ [][ConcurrentNext]_vars

(***************************************************************************)
(* The serverless event handler of one process instance (api/events)      *)
(***************************************************************************)
\* the requests the process instance receives
MaxRequests == 3

Requests == 1 .. MaxRequests

\* no response has been sent
NO_STATUS == 0

\* res.status(200), res.status(405), res.status(500)
OK == 200

METHOD_NOT_ALLOWED == 405

INTERNAL_ERROR == 500

\* if (!initialized)
NeedsInit(initialized) == ~initialized

\* IsRetry when the x-slack-retry-num header is not looked at
IsRetry_Never(retry) == FALSE

\* if (req.headers['x-slack-retry-num'])
IsRetry(retry) == retry

\* a request is awaiting slackService.start() inside initApp
InitRunning == \E q \in Requests : svcCall.at[q] = "start"

\* the module is loaded: let initialized = false, the app has no listeners
SV_Load ==
    /\ svcCall.op = "none"
    /\ svcCall' = [op |-> "handler", initialized |-> FALSE,
                   at |-> [r \in Requests |-> "idle"],
                   method |-> [r \in Requests |-> ""],
                   retry |-> [r \in Requests |-> FALSE]]
    /\ svcResult' = [kind |-> "handler", initRuns |-> 0, registered |-> 0, failed |-> 0,
                     overlapped |-> 0,
                     ranInit |-> [r \in Requests |-> FALSE],
                     status |-> [r \in Requests |-> NO_STATUS],
                     handled |-> [r \in Requests |-> 0]]
    /\ UNCHANGED <<pages, serviceFrame>>

\* handler(req, res) up to its first await: 405 for a method other than POST,
\* 200 for a retry, else initApp when initialized is false.  initApp validates
\* the environment, registers its listeners on the app and awaits
\* slackService.start(); a throwing getEnv is rethrown to the handler's catch.
SV_Handler(r) ==
    /\ svcCall.op = "handler"
    /\ svcCall.at[r] = "idle"
    /\ \E method \in {"POST", "GET"}, retry \in BOOLEAN, envOk \in BOOLEAN :
        IF method # "POST"
        THEN /\ svcCall' = [svcCall EXCEPT !.at[r] = "done", !.method[r] = method,
                                            !.retry[r] = retry]
             /\ svcResult' = [svcResult EXCEPT !.status[r] = METHOD_NOT_ALLOWED]
        ELSE IF IsRetry(retry)
        THEN /\ svcCall' = [svcCall EXCEPT !.at[r] = "done", !.method[r] = method,
                                            !.retry[r] = retry]
             /\ svcResult' = [svcResult EXCEPT !.status[r] = OK]
        ELSE IF NeedsInit(svcCall.initialized)
        THEN IF envOk
             THEN /\ svcCall' = [svcCall EXCEPT !.at[r] = "start", !.method[r] = method,
                                                 !.retry[r] = retry]
                  /\ svcResult' = [svcResult EXCEPT
                                       !.initRuns = @ + 1,
                                       !.registered = @ + 1,
                                       !.overlapped = IF InitRunning THEN @ + 1 ELSE @,
                                       !.ranInit[r] = TRUE]
             ELSE /\ svcCall' = [svcCall EXCEPT !.at[r] = "done", !.method[r] = method,
                                                 !.retry[r] = retry]
                  /\ svcResult' = [svcResult EXCEPT
                                       !.initRuns = @ + 1,
                                       !.failed = @ + 1,
                                       !.overlapped = IF InitRunning THEN @ + 1 ELSE @,
                                       !.ranInit[r] = TRUE,
                                       !.status[r] = INTERNAL_ERROR]
        ELSE /\ svcCall' = [svcCall EXCEPT !.at[r] = "listen", !.method[r] = method,
                                            !.retry[r] = retry]
             /\ svcResult' = svcResult
    /\ UNCHANGED <<pages, serviceFrame>>

\* await slackService.start() settles: initApp returns, initialized = true and
\* the request is delegated to the receiver; or initApp rethrows and the
\* handler's catch answers 500, initialized left false
SV_InitSettled(r) ==
    /\ svcCall.op = "handler"
    /\ svcCall.at[r] = "start"
    /\ \E ok \in BOOLEAN :
        IF ok
        THEN /\ svcCall' = [svcCall EXCEPT !.at[r] = "listen", !.initialized = TRUE]
             /\ svcResult' = svcResult
        ELSE /\ svcCall' = [svcCall EXCEPT !.at[r] = "done"]
             /\ svcResult' = [svcResult EXCEPT !.failed = @ + 1, !.status[r] = INTERNAL_ERROR]
    /\ UNCHANGED <<pages, serviceFrame>>

\* await receiver.requestListener(req, res): every listener registered on the
\* app for the event runs, then the receiver answers; a throwing listener call
\* ends in the handler's catch
SV_Listened(r) ==
    /\ svcCall.op = "handler"
    /\ svcCall.at[r] = "listen"
    /\ \E ok \in BOOLEAN :
        /\ svcResult' = [svcResult EXCEPT
                             !.handled[r] = IF ok THEN svcResult.registered ELSE 0,
                             !.status[r] = IF ok THEN OK ELSE INTERNAL_ERROR]
    /\ svcCall' = [svcCall EXCEPT !.at[r] = "done"]
    /\ UNCHANGED <<pages, serviceFrame>>

ServerlessNext ==
    \/ SV_Load
    \/ \E r \in Requests : SV_Handler(r)
    \/ \E r \in Requests : SV_InitSettled(r)
    \/ \E r \in Requests : SV_Listened(r)

ServerlessSpec == ParserInit /\ [][ServerlessNext]_vars

(***************************************************************************)
(* Concurrent calls of NotionService.appendNote on one record (thread      *)
(* replies to the same thread)                                             *)
(***************************************************************************)
\* the appendNote calls made on the record
MaxAppenders == 3

Appenders == 1 .. MaxAppenders

\* the note of call c (updates.note || text of reply c)
NoteOf(c) == <<"n1", "n2", "n3", "n4", "n5">>[c]

\* the record all replies are resolved to
THE_RECORD == 1

\* the replies are resolved to the record of their thread, whose summary is
\* empty or holds a text
AN_Resolved ==
    /\ svcCall.op = "none"
    /\ \E summary \in {EMPTY, <<"s">>} :
        pages' = <<[NewPage(<<"a">>, WORK, "sig0", OldTs) EXCEPT !.summary = summary]>>
    /\ svcCall' = [op |-> "appendNote", at |-> [c \in Appenders |-> "idle"],
                   currentSummary |-> [c \in Appenders |-> EMPTY]]
    /\ svcResult' = [kind |-> "appendNote", clock |-> 0,
                     readAt |-> [c \in Appenders |-> 0],
                     writeAt |-> [c \in Appenders |-> 0]]
    /\ UNCHANGED serviceFrame

\* await pages.retrieve: currentSummary is the summary the record has now; a
\* failing call is rethrown
AN_Retrieve(c) ==
    /\ svcCall.op = "appendNote"
    /\ svcCall.at[c] = "idle"
    /\ \E ok \in BOOLEAN :
        IF ok
        THEN /\ svcCall' = [svcCall EXCEPT !.at[c] = "update",
                                            !.currentSummary[c] = pages[THE_RECORD].summary]
             /\ svcResult' = [svcResult EXCEPT !.clock = @ + 1, !.readAt[c] = svcResult.clock + 1]
        ELSE /\ svcCall' = [svcCall EXCEPT !.at[c] = "thrown"]
             /\ svcResult' = svcResult
    /\ UNCHANGED <<pages, serviceFrame>>

\* await pages.update: the summary computed from currentSummary is written; a
\* failing call is rethrown
AN_Update(c) ==
    /\ svcCall.op = "appendNote"
    /\ svcCall.at[c] = "update"
    /\ \E ok \in BOOLEAN :
        IF ok
        THEN /\ pages' = [pages EXCEPT ![THE_RECORD].summary =
                                          UpdatedSummary(svcCall.currentSummary[c], NoteOf(c))]
             /\ svcCall' = [svcCall EXCEPT !.at[c] = "returned"]
             /\ svcResult' = [svcResult EXCEPT !.clock = @ + 1, !.writeAt[c] = svcResult.clock + 1]
        ELSE /\ pages' = pages
             /\ svcCall' = [svcCall EXCEPT !.at[c] = "thrown"]
             /\ svcResult' = svcResult
    /\ UNCHANGED serviceFrame

NoteNext ==
    \/ AN_Resolved
    \/ \E c \in Appenders : AN_Retrieve(c)
    \/ \E c \in Appenders : AN_Update(c)

NoteSpec == SearchInit /\ [][NoteNext]_vars

(***************************************************************************)
(* Properties of GeminiService.updateWithContext                           *)
(***************************************************************************)
\* no object of the text carries a thought_signature
NoSignatureIn(t) == \A i \in DOMAIN t : t[i].val.thought_signature = ""

UpdateCalled == svcCall.op = "updateWithContext"

\* C11: whenever the provider's answer carries no thought_signature (the call
\* failed, the text holds none, or the decoded value has none or an empty
\* one, the keyword fallback included), updateWithContext returns the
\* originalSignature it was given; and through a sequence of such updates, each
\* fed the signature the one before returned, the signature stays the one the
\* sequence started with.
C11_SignaturePreserved ==
    UpdateCalled =>
        /\ (\/ SignatureOmitted(svcCall.reply, svcCall.providerOk, svcCall.text)
            \/ NoSignatureIn(svcCall.text))
           => (~svcResult.threw /\ svcResult.thought_signature = svcCall.originalSignature)
        /\ svcCall.omittedAll => svcResult.thought_signature = svcCall.first

\* the second update of a sequence that started with "sig0": the text of the
\* answer is not JSON and the keyword fallback decides; the signature is still
\* "sig0"
C11_Witness ==
    /\ UpdateCalled
    /\ svcCall.n = 2
    /\ svcCall.omittedAll
    /\ svcCall.first = "sig0"
    /\ svcCall.providerOk
    /\ Len(svcCall.text) = 1 /\ svcCall.text[1].lex = "prose"
    /\ svcResult.action = "completed"
    /\ svcResult.thought_signature = "sig0"

\* C12 as stated: the action of every result of updateWithContext is one of
\* completed, in_progress, detail, rescheduled, deleted, unchanged.
C12_ActionInSix == (UpdateCalled /\ ~svcResult.threw) => svcResult.action \in Actions

\* the provider answers with one JSON object whose action is none of the six:
\* updateWithContext returns it as it is
C12_Witness ==
    /\ UpdateCalled
    /\ svcCall.providerOk
    /\ Len(svcCall.text) = 1 /\ svcCall.text[1].lex = "object"
    /\ svcCall.text[1].val.action = "summarize"
    /\ ~svcResult.threw
    /\ svcResult.action = "summarize"

\* no way of the cascade decodes the text: it is no JSON value, and what each
\* pattern extracts from it, if anything, is none either
Undecodable(t) ==
    /\ ~JsonParse(t).ok
    /\ \A m \in {JsonCodeBlock(t), GenericCodeBlock(t, Tok("prose", NoUpdObj)), JsonObjectMatch(t)} :
        ~m.matched \/ ~JsonParse(m.group).ok

\* the action the keyword heuristic is to give for each reply: completion
\* keywords first, then progress keywords, then "reschedule" or an ISO date,
\* otherwise detail
ExpectedAction(reply) ==
    CASE reply \in {<<"d", "o", "n", "e">>, <<"D", "o", "n", "e">>, <<"c", "o", "m", "p", "l", "e", "t", "e">>, <<"s", "t", "a", "r", "t", "d", "o", "n", "e">>}
         -> "completed"
    [] reply \in {<<"d", "o", "i", "n", "g">>, <<"p", "r", "o", "g", "r", "e", "s", "s">>, <<"s", "t", "a", "r", "t">>, <<"s", "t", "a", "r", "t", "2", "0", "2", "6", "-", "0", "1", "-", "0", "2">>}
         -> "in_progress"
    [] reply \in {<<"r", "e", "s", "c", "h", "e", "d", "u", "l", "e">>, <<"2", "0", "2", "6", "-", "0", "1", "-", "0", "2">>}
         -> "rescheduled"
    [] reply \in {<<"o", "k">>, EMPTY}
         -> "detail"

\* C13: updateWithContext never throws; when no pattern decodes the provider's
\* answer the result is the keyword heuristic on the reply, with no updates;
\* when the provider call fails the result is action detail with the reply as
\* the note.
C13_FallbackNeverThrows ==
    UpdateCalled =>
        /\ ~svcResult.threw
        /\ ~svcCall.providerOk => (svcResult.action = "detail" /\ svcResult.note = svcCall.reply)
        /\ (svcCall.providerOk /\ Undecodable(svcCall.text))
           => (/\ svcResult.action = ExpectedAction(svcCall.reply)
               /\ svcResult.note = EMPTY
               /\ svcResult.due_date = "")

\* the answer holds a json-fenced block whose content is prose; the reply holds
\* a progress keyword and a date: the progress keyword wins
C13_Witness ==
    /\ UpdateCalled
    /\ svcCall.providerOk
    /\ Len(svcCall.text) = 3
    /\ svcCall.text[1].lex = "jsonfence" /\ svcCall.text[2].lex = "prose"
    /\ svcCall.text[3].lex = "fence"
    /\ svcCall.reply = <<"s", "t", "a", "r", "t", "2", "0", "2", "6", "-", "0", "1", "-", "0", "2">>
    /\ svcResult.action = "in_progress"

(***************************************************************************)
(* Properties of the thread-update flow                                    *)
(***************************************************************************)
\* C14: the step in which updateWithContext classifies a reply changes no
\* record, adds and removes none, and calls no NotionService method; while a
\* thread reply is processed the store changes only in the step that applies
\* the decision.
C14_ClassifierLeavesStore ==
    [][/\ pc = "tu_classify"
          => (pages' = pages /\ dataSourceId' = dataSourceId /\ storeCalled' = storeCalled)
       /\ (handler = "handleThreadUpdate" /\ pages' # pages) => pc = "tu_apply"]_vars

\* the reply was classified as completed and nothing is applied yet: the
\* record still has the status it had
C14_Witness ==
    /\ handler = "handleThreadUpdate"
    /\ pc = "tu_apply"
    /\ updateResult.action = "completed"
    /\ task # NoPage
    /\ pages[task].status = "Todo"

\* C15: the step that applies a classified action changes at most the record
\* found by the thread key, and when its store call succeeds the record is
\* changed as the action says: completed sets Status to Done, in_progress to
\* In Progress, detail appends the classifier's note or else the reply text,
\* rescheduled with a due date sets the due date, deleted archives the record;
\* unchanged (and rescheduled without a date) makes no store call.
C15_DecisionApplied ==
    [][pc = "tu_apply" =>
        LET a == updateResult.action
            applied == pc' = "tu_confirm"
        IN  /\ pages[task].threadTS = event.thread_ts
            /\ Len(pages') = Len(pages)
            /\ \A i \in DOMAIN pages : i # task => pages'[i] = pages[i]
            /\ pc' = "tu_catch" => pages' = pages
            /\ (a = "completed" /\ applied) => pages' = [pages EXCEPT ![task].status = "Done"]
            /\ (a = "in_progress" /\ applied)
                => pages' = [pages EXCEPT ![task].status = "In Progress"]
            /\ (a = "detail" /\ applied)
                => /\ pages[task].summary = EMPTY
                   /\ pages' = [pages EXCEPT ![task].summary =
                                    IF updateResult.note THEN <<"n">> ELSE <<"t">>]
            /\ (a = "rescheduled" /\ updateResult.due_date /\ applied)
                => pages' = [pages EXCEPT ![task].dueDate = "d1"]
            /\ (a = "rescheduled" /\ ~updateResult.due_date) => (pages' = pages /\ pc' = "done")
            /\ (a = "deleted" /\ applied) => pages' = ArchivePage(pages, task)
            /\ a = "unchanged" => (pages' = pages /\ applied)]_vars

\* a reply classified as in_progress was applied and confirmed: the record
\* found by the thread key, Todo before, is In Progress
C15_Witness ==
    /\ handler = "handleThreadUpdate"
    /\ pc = "done"
    /\ outcome = "returned"
    /\ updateResult.action = "in_progress"
    /\ task # NoPage
    /\ pages[task].threadTS = OldTs
    /\ pages[task].status = "In Progress"
    /\ failureMsgs = 0

(***************************************************************************)
(* Properties of the multi-extraction flow                                 *)
(***************************************************************************)
\* the positions at which a lookup has just found no record
MissPcs == {"tu_notfound", "lc_delete_miss", "lc_update_miss"}

\* the positions at which a lookup is made
LookupPcs == {"tu_entry", "lc_delete", "lc_update"}

\* the step taken after a lookup found no record
MissStep == pc \in MissPcs /\ pc' # pc

\* C16, as stated: after a lookup that finds no record the user receives exactly
\* one warning, no record is mutated, the classifier is not called and the
\* lookup is not repeated.
C16_MissWarnsUser ==
    [][MissStep =>
        /\ warnMsgs' = warnMsgs + 1
        /\ pages' = pages
        /\ updateResult' = NoUpdateResult
        /\ pc' \notin LookupPcs]_vars

\* C16, what the code does: after a lookup that finds no record the handler
\* makes exactly one gateway call, which carries the warning (updateMessage for
\* delete_task, sendMessage for the other two); the user receives one warning
\* if the gateway delivers it and none otherwise (a failing sendMessage takes
\* the handler to its catch block, a failing updateMessage is swallowed); no
\* record is mutated, the classifier is not called, and the handler goes on to
\* the next extraction or returns without repeating the lookup.
C16_MissWarnsOnce ==
    [][MissStep =>
        /\ pages' = pages
        /\ dataSourceId' = dataSourceId
        /\ task = NoPage /\ task' = NoPage
        /\ updateResult = NoUpdateResult /\ updateResult' = NoUpdateResult
        /\ extIdx' = extIdx
        /\ pc # "tu_notfound" => Len(opLog) = 1 /\ opLog' = opLog
        /\ failureMsgs' = failureMsgs
        /\ IF pc = "lc_delete_miss"
           THEN /\ pc' = "lc_loop"
                /\ posted' = posted
                /\ updateText' = "Could not find any tasks to delete"
                /\ warnMsgs' = IF finalDelivered' THEN warnMsgs + 1 ELSE warnMsgs
           ELSE \/ /\ posted' = posted + 1
                   /\ warnMsgs' = warnMsgs + 1
                   /\ pc' = IF pc = "tu_notfound" THEN "done" ELSE "lc_loop"
                \/ /\ posted' = posted
                   /\ warnMsgs' = warnMsgs
                   /\ pc' = IF pc = "tu_notfound" THEN "tu_catch" ELSE "lc_catch"]_vars

\* a message whose only extraction is an update_task for a title no record
\* carries was processed: one warning was delivered, the classifier was not
\* called and the store is as it was
C16_Witness ==
    /\ handler = "handleCapture"
    /\ pc = "done"
    /\ outcome = "returned"
    /\ Len(geminiResponse.extractions) = 1
    /\ geminiResponse.extractions[1] = Extraction("update_task", MISSING, EMPTY)
    /\ warnMsgs = 1
    /\ posted = 2
    /\ failureMsgs = 0

(***************************************************************************)
(* Properties of GeminiService.analyzeThought                              *)
(***************************************************************************)
AnalyzeCalled == svcCall.op \in {"analyzeThought", "analyzeThoughtSingle"}

\* an extraction with a single intent of the four
WellFormed(x) == x.intent \in Intents

\* C17: whatever the provider answers, and also when its call fails,
\* analyzeThought returns without raising and the result holds at least one
\* well-formed extraction.
C17_AlwaysOneExtraction ==
    AnalyzeCalled =>
        /\ ~svcResult.threw
        /\ \E i \in DOMAIN svcResult.extractions : WellFormed(svcResult.extractions[i])

\* C17, what the code does: the multi-extraction version never raises, and
\* returns the local fallback (one new_task extraction titled with the first 50
\* characters of the text) exactly when the provider fails or its answer does
\* not decode to an object; a decoded object is not inspected further.
C17_MultiNeverRaises ==
    svcCall.op = "analyzeThought" =>
        /\ ~svcResult.threw
        /\ svcResult.fallback
            <=> \/ ~svcCall.providerOk
                \/ ~JsonParse(CleanResponse(svcCall.response)).ok
                \/ JsonParse(CleanResponse(svcCall.response)).isNull
        /\ svcResult.fallback
            => /\ svcResult.extractions
                    = <<Extraction("new_task", EMPTY, Take(svcCall.text, TITLE_MAX))>>
               /\ Len(svcResult.extractions[1].title) <= TITLE_MAX

\* the provider answered with the object {} and the multi-extraction version
\* returned an empty list of extractions
C17_Witness ==
    /\ svcCall.op = "analyzeThought"
    /\ svcCall.providerOk
    /\ svcCall.response = <<Tok("object", NoAnObj)>>
    /\ ~svcResult.threw
    /\ ~svcResult.fallback
    /\ svcResult.extractions = <<>>

\* the provider's answer is one JSON object inside unfenced prose
Embedded(t) ==
    /\ Len(t) > 1
    /\ \E i \in DOMAIN t :
        /\ t[i].lex = "object"
        /\ \A j \in DOMAIN t : j # i => t[j].lex = "prose"

\* the first decode that succeeds among: the whole text, the json-fenced block,
\* the generic fenced block, the brace-delimited object
CascadeDecode(t) ==
    LET word == Tok("prose", NoAnObj)
        tries == <<JsonParse(t), JsonParse(JsonCodeBlock(t).group),
                   JsonParse(GenericCodeBlock(t, word).group), JsonParse(JsonObjectMatch(t).group)>>
        good == {k \in 1..4 : tries[k].ok /\ ~tries[k].isNull}
    IN  IF good = {} THEN [ok |-> FALSE, isNull |-> FALSE, val |-> <<>>] ELSE tries[Min(good)]

\* the extractions a decoded object stands for: its extractions field in the
\* multi-extraction version, the object itself in the single-extraction version
ExtractionsOf(op, o) ==
    IF op = "analyzeThought" THEN o.extractions ELSE <<Extraction(o.intent, EMPTY, o.title)>>

\* C18: the answer is decoded by the first of direct decode, json-fenced block,
\* generic fenced block and brace-delimited object that succeeds, and the local
\* fallback is returned only when all four fail; an object embedded in unfenced
\* prose yields that object's extractions.
C18_FiveStepCascade ==
    (AnalyzeCalled /\ svcCall.providerOk) =>
        LET d == CascadeDecode(svcCall.response)
        IN  /\ ~svcResult.threw
            /\ svcResult.fallback <=> ~d.ok
            /\ d.ok => svcResult.extractions = ExtractionsOf(svcCall.op, d.val)

\* C18, what the code does: the multi-extraction version has no brace step, so
\* an object embedded in unfenced prose ends in the local fallback; the
\* single-extraction version has the brace step and returns the object, but has
\* no local fallback and raises when the provider fails or nothing decodes.
C18_CascadeOfTheCode ==
    /\ (svcCall.op = "analyzeThought" /\ svcCall.providerOk /\ Embedded(svcCall.response))
        => svcResult.fallback
    /\ (svcCall.op = "analyzeThoughtSingle" /\ svcCall.providerOk /\ Embedded(svcCall.response))
        => /\ ~svcResult.threw
           /\ svcResult.extractions
                = ExtractionsOf(svcCall.op, JsonObjectMatch(svcCall.response).group[1].val)
    /\ svcCall.op = "analyzeThoughtSingle" => ~svcResult.fallback
    /\ (svcCall.op = "analyzeThoughtSingle"
            /\ (~svcCall.providerOk \/ ~CascadeDecode(svcCall.response).ok))
        => svcResult.threw \/ svcResult.extractions = <<Extraction("", EMPTY, EMPTY)>>

\* the provider answered prose, a well-formed object with two extractions, and
\* prose again, and the multi-extraction version returned the local fallback
C18_Witness ==
    /\ svcCall.op = "analyzeThought"
    /\ svcCall.providerOk
    /\ Len(svcCall.response) = 3
    /\ Embedded(svcCall.response)
    /\ svcCall.response[2].lex = "object"
    /\ Len(svcCall.response[2].val.extractions) = 2
    /\ svcResult.fallback
    /\ svcResult.extractions = <<Extraction("new_task", EMPTY, svcCall.text)>>

(***************************************************************************)
(* Properties of GeminiService.generateDummyHash                           *)
(***************************************************************************)
\* values of generateDummyHash worked out from its source by hand: the hash of
\* "zzzzzz" is -685785664 and that of "zzzzzzz" is 215481018 (both after the
\* hash has left the 32-bit range)
KnownSignatures ==
    {[text |-> <<>>, sig |-> <<"0">>],
     [text |-> <<"A">>, sig |-> <<"1", "t">>],
     [text |-> <<"A", "a">>, sig |-> <<"1", "m", "o">>],
     [text |-> <<"B", "B">>, sig |-> <<"1", "m", "o">>],
     [text |-> Zs(6), sig |-> <<"b", "c", "a", "r", "l", "s">>],
     [text |-> Zs(7), sig |-> <<"3", "k", "a", "i", "7", "u">>]}

HashCalled == svcCall.op = "generateDummyHash"

\* C19, as stated: the signature of a text is the same whenever it is derived,
\* and two different texts have different signatures.
C19_NoCollision ==
    HashCalled =>
        /\ svcResult.again = svcResult.first
        /\ svcCall.text1 # svcCall.text2 => svcResult.first # svcResult.second

\* C19, what the code does: the signature of a text is the same whenever it is
\* derived; it is the base-36 rendering, of one to seven digits and never cut
\* by substring(0, 8), of the absolute value of the 32-bit hash; two texts have
\* the same signature exactly when their hashes have the same absolute value,
\* which different texts can have.
C19_Deterministic ==
    HashCalled =>
        /\ svcResult.again = svcResult.first
        /\ svcCall.text1 = svcCall.text2 => svcResult.first = svcResult.second
        /\ Len(svcResult.first) \in 1..7
        /\ svcResult.first = svcResult.second
            <=> Abs(RollingHash(svcCall.text1, Len(svcCall.text1)))
                    = Abs(RollingHash(svcCall.text2, Len(svcCall.text2)))
        /\ \A k \in KnownSignatures : svcCall.text1 = k.text => svcResult.first = k.sig

\* the signatures of "Aa" and of "BB" were derived, and both are "1mo"
C19_Witness ==
    /\ HashCalled
    /\ svcCall.text1 = <<"A", "a">>
    /\ svcCall.text2 = <<"B", "B">>
    /\ svcResult.first = <<"1", "m", "o">>
    /\ svcResult.second = <<"1", "m", "o">>

(***************************************************************************)
(* Properties of NotionService.searchTasks                                 *)
(***************************************************************************)
SearchCalled == svcCall.op = "searchTasks"

\* the records of the store whose status is not Done
OpenRecords == {i \in DOMAIN pages : pages[i].status # "Done"}

\* the records a search returned
Returned == {svcResult.tasks[k] : k \in DOMAIN svcResult.tasks}

\* C20: a search for the sentinel that the store answers returns every record
\* whose status is not Done, however many there are, and no record whose status
\* is Done.
C20_AllOpenRecords ==
    (SearchCalled /\ svcCall.ok) => Returned = OpenRecords

\* C20, what the code does: the search returns no Done record and no record
\* twice; it returns every record that is not Done while there are at most
\* page_size (15) of them, and only 15 of them when there are more, because the
\* query asks for one page of results and never for the next; when the query
\* fails it returns the empty list.
C20_FirstPageOfOpenRecords ==
    SearchCalled =>
        /\ Returned \subseteq OpenRecords
        /\ Cardinality(Returned) = Len(svcResult.tasks)
        /\ svcCall.ok =>
            Len(svcResult.tasks) = IF Cardinality(OpenRecords) <= PAGE_SIZE
                                   THEN Cardinality(OpenRecords) ELSE PAGE_SIZE
        /\ ~svcCall.ok => svcResult.tasks = <<>>

\* sixteen records, none of them Done, were searched with "all", the store
\* answered, and fifteen records came back
C20_Witness ==
    /\ SearchCalled
    /\ svcCall.ok
    /\ svcCall.query = ALL
    /\ Cardinality(OpenRecords) = PAGE_SIZE + 1
    /\ Len(svcResult.tasks) = PAGE_SIZE

(***************************************************************************)
(* Properties of archive_tasks and delete_task                             *)
(***************************************************************************)
\* the records that are archived (every record of ArchiveSpec starts live)
Archived == {i \in DOMAIN pages : pages[i].archived}

\* the archive_tasks call has been answered { success: true, archivedCount }
ArchiveTasksSucceeded ==
    /\ pc = "hc_send"
    /\ Len(functionResponses) = 1
    /\ ResultOf(1).kind = "archived"

\* the delete_task extraction has ended with "Successfully removed n task(s)"
DeleteTaskSucceeded == pc = "lc_loop" /\ updateText = "Successfully removed"

\* archivedCount of the result, tasksToDelete.length of the message
ReportedCount == IF pc = "hc_send" THEN ResultOf(1).count ELSE Len(tasksToArchive)

\* no record was handed to archivePage twice
ArchivedOnce ==
    \A i, j \in DOMAIN opLog :
        (i # j /\ opLog[i].op = "archive" /\ opLog[j].op = "archive")
            => opLog[i].page # opLog[j].page

\* the first PAGE_SIZE matching records
FirstMatches == {i \in Matches : Cardinality({j \in Matches : j < i}) < PAGE_SIZE}

\* C21 as stated: when archive_tasks or delete_task reports success, every
\* record that matches the search term is archived, each exactly once, and the
\* reported count is the number of records archived.
C21_ArchivesEveryMatch ==
    (ArchiveTasksSucceeded \/ DeleteTaskSucceeded)
        => /\ Archived = Matches
           /\ ArchivedOnce
           /\ ReportedCount = Cardinality(Archived)

\* C21, what the code does: only matching records are ever archived, each at
\* most once; a success reports the number of records archived, and these are
\* the first PAGE_SIZE matches when the search answered and none when the
\* search failed inside searchTasks.
C21_ArchivesWhatSearchReturned ==
    /\ Archived \subseteq Matches
    /\ ArchivedOnce
    /\ (ArchiveTasksSucceeded \/ DeleteTaskSucceeded)
        => /\ ReportedCount = Cardinality(Archived)
           /\ Archived = IF opLog[1].ok THEN FirstMatches ELSE {}

\* two matching records behind a record that does not match were archived and
\* reported
C21_Witness ==
    /\ ArchiveTasksSucceeded \/ DeleteTaskSucceeded
    /\ Len(pages) = 3
    /\ Matches = {2, 3}
    /\ Archived = Matches
    /\ ReportedCount = 2

(***************************************************************************)
(* Properties of NotionService.discoverDataSource                          *)
(***************************************************************************)
\* the NotionService of the process exists
Constructed == svcCall.op = "discoverDataSource"

\* caller c entered discoverDataSource after an identifier was obtained
Later(c) == svcCall.at[c] # "idle" /\ svcCall.cachedAtCall[c] # ""

\* caller c has its answer
HasReturned(c) == svcCall.at[c] = "returned"

\* databases.retrieve of caller c settles in this step with outcome d
Settles(c, d) ==
    /\ svcCall.at[c] = "retrieve"
    /\ svcCall'.at[c] = "returned"
    /\ svcResult'.outcome[c] = d

\* a call made once an identifier is cached never calls databases.retrieve
\* and returns the cached identifier; a call made before calls it once
CallsUseTheCache ==
    Constructed =>
        \A c \in Callers :
            /\ Later(c) => /\ svcResult.retrieves[c] = 0
                           /\ HasReturned(c)
                           /\ svcResult.value[c] = svcCall.cachedAtCall[c]
                           /\ svcResult.value[c] = dataSourceId
            /\ (svcCall.at[c] # "idle" /\ ~Later(c)) => svcResult.retrieves[c] = 1

\* the cached identifier never changes once set, and a discovery that found
\* nothing or failed stores nothing and returns null
CacheStep ==
    /\ dataSourceId # "" => dataSourceId' = dataSourceId
    /\ Constructed =>
        \A c \in Callers :
            /\ (Settles(c, "none") \/ Settles(c, "fail"))
                => dataSourceId' = dataSourceId /\ svcResult'.value[c] = ""
            /\ Settles(c, "found")
                => dataSourceId' = DATA_SOURCE /\ svcResult'.value[c] = DATA_SOURCE

\* C22: once discoverDataSource has obtained an identifier, every call made
\* later returns that identifier without calling databases.retrieve, however
\* the callers interleave; a discovery that failed or found nothing is not
\* cached, so that the next call asks the store again.
C22_IdentifierCachedOnce == [] CallsUseTheCache /\ [][CacheStep]_vars

\* two callers were waiting together; one failed and one obtained the
\* identifier, a third caller came later and was answered from the cache
C22_Witness ==
    /\ Constructed
    /\ \E a, b, c \in Callers :
        /\ svcCall.cachedAtCall[a] = "" /\ HasReturned(a) /\ svcResult.outcome[a] = "fail"
        /\ svcResult.value[a] = ""
        /\ svcCall.cachedAtCall[b] = "" /\ HasReturned(b) /\ svcResult.outcome[b] = "found"
        /\ Later(c) /\ HasReturned(c) /\ svcResult.value[c] = DATA_SOURCE

(***************************************************************************)
(* Properties of the NotionService lookups                                 *)
(***************************************************************************)
LookupCalled ==
    svcCall.op \in {"findPageByThreadTS", "findPageByTitle", "queryDueTasks",
                    "queryModifiedToday"}

\* what the store holds for the lookup that was called
StoreAnswer ==
    CASE svcCall.op = "findPageByThreadTS" -> QueryByThreadTS(pages, svcCall.arg[1])
      [] svcCall.op = "findPageByTitle" -> QueryByTitle(pages, svcCall.arg)
      [] svcCall.op = "queryDueTasks" -> QueryDue(pages, TODAY)
      [] svcCall.op = "queryModifiedToday" -> QueryModified(pages, TODAY)

\* null for the lookups of one record, [] for the lookups of a list
Nothing == IF svcCall.op \in {"findPageByThreadTS", "findPageByTitle"} THEN NoPage ELSE <<>>

\* the whole-collection query was sent
UsedOlder == \E i \in DOMAIN svcResult.queries : svcResult.queries[i] = DATABASES_QUERY

\* the sub-resource query was sent
UsedNewer == \E i \in DOMAIN svcResult.queries : svcResult.queries[i] = DATA_SOURCES_QUERY

\* C23: the whole-collection query is used exactly when discovery yields no
\* identifier or the sub-resource query throws; the caller then receives the
\* result of the whole-collection query; when that fails too the lookup
\* returns null or the empty list; the lookup never throws.
C23_FallbackExactlyOnFailure ==
    LookupCalled =>
        /\ UsedOlder <=> (svcCall.dsId = "" \/ ~svcCall.newOk)
        /\ UsedNewer <=> svcCall.dsId # ""
        /\ (UsedOlder /\ svcCall.oldOk) => svcResult.value = StoreAnswer
        /\ (UsedOlder /\ ~svcCall.oldOk) => svcResult.value = Nothing
        /\ ~UsedOlder => svcResult.value = StoreAnswer
        /\ ~svcResult.threw
        /\ svcCall.op = "findPageByThreadTS"
            => svcResult.value = FindPageByThreadTS(pages, svcCall.arg[1], svcCall.dsId,
                                                    svcCall.newOk, svcCall.oldOk)
        /\ svcCall.op = "findPageByTitle"
            => svcResult.value = FindPageByTitle(pages, svcCall.arg, svcCall.dsId,
                                                 svcCall.newOk, svcCall.oldOk)

\* queryDueTasks found its two due records through the whole-collection query
\* after the sub-resource query threw
C23_Witness ==
    /\ svcCall.op = "queryDueTasks"
    /\ svcCall.dsId # "" /\ ~svcCall.newOk /\ svcCall.oldOk
    /\ svcResult.queries = <<DATA_SOURCES_QUERY, DATABASES_QUERY>>
    /\ Len(svcResult.value) = 2

(***************************************************************************)
(* Properties of the outbound messages of one inbound message              *)
(***************************************************************************)
\* a handler is at work on the inbound message, or has finished with it
Processing ==
    /\ pc \notin {"idle", "routed"}
    /\ handler \in {"handleCapture", "handleThreadUpdate"}

\* the catch block of the handler was entered
Fatal ==
    \/ pc \in {"hc_catch", "tu_catch", "lc_catch"}
    \/ failureMsgs > 0
    \/ outcome = "thrown"

\* the handler ended after it had called the chat gateway
EndedAfterPosting == pc = "done" /\ gatewayCalled

\* C24 as stated: while an inbound message is processed without a fatal error,
\* exactly one new outbound message is posted; every status and the result
\* are edits of it.
C24_OneOutboundMessage ==
    (Processing /\ ~Fatal)
        => /\ posted <= 1
           /\ EndedAfterPosting => posted = 1

\* C24, what the code does: handleCapture (agentic version) posts one message
\* and edits it; handleThreadUpdate never edits a message and posts each
\* warning, the progress indicator and the confirmation as a message of its
\* own, up to three.
C24_CaptureEditsThreadUpdatePosts ==
    (Processing /\ ~Fatal)
        => /\ handler = "handleCapture"
                => /\ posted <= 1
                   /\ EndedAfterPosting => posted = 1
           /\ handler = "handleThreadUpdate"
                => /\ posted <= 3
                   /\ updateText = ""
                   /\ (pc = "done" /\ task # NoPage /\ updateResult.action = "completed")
                        => posted >= 2

\* a thread reply was processed to its end without failure and three new
\* messages were posted for it
C24_Witness ==
    /\ handler = "handleThreadUpdate"
    /\ pc = "done"
    /\ outcome = "returned"
    /\ ~Fatal
    /\ posted = 3

(***************************************************************************)
(* Properties of updateMessage inside handleCapture                        *)
(***************************************************************************)
\* the statement after each updateMessage of handleCapture
AfterUpdate(at) ==
    CASE at = "hc_thinking" -> "hc_start"
      [] at = "hc_notify" -> "hc_exec"
      [] at = "hc_final" -> "done"

\* this step is an updateMessage of handleCapture whose chat.update fails
UpdateFails ==
    /\ pc \in {"hc_thinking", "hc_notify", "hc_final"}
    /\ pc' # pc
    /\ ~finalDelivered'

\* the provider turns, the store and the messages are left alone, and the
\* handler goes on with the statement after the update
GoesOn ==
    /\ pc' = AfterUpdate(pc)
    /\ UNCHANGED <<storeVars, loopVars, providerTurns, posted, failureMsgs, warnMsgs, flagVars>>

\* C25: a failing updateMessage of handleCapture sends no failure message and
\* changes neither the provider turns nor the store operations: the handler
\* goes on exactly where the step of a successful update goes on.
C25_UpdateFailureNotFatal ==
    [][UpdateFails => (GoesOn /\ ENABLED (HandleCapture /\ finalDelivered' /\ GoesOn))]_vars

\* the progress update of the second tool call of a batch failed after the
\* first call had reached the store, and the handler is at the second call
C25_Witness ==
    /\ handler = "handleCapture"
    /\ pc = "hc_exec"
    /\ callIdx = 2
    /\ ~finalDelivered
    /\ opLog # <<>>
    /\ failureMsgs = 0

(***************************************************************************)
(* Properties of the for loop of the multi-extraction handleCapture        *)
(***************************************************************************)
\* the positions inside the branches of the for loop
BranchPcs ==
    {"lc_query", "lc_delete", "lc_delete_miss", "lc_archive", "lc_update", "lc_update_miss",
     "lc_classify", "lc_apply", "lc_new", "lc_link"}

\* the positions inside the branch that extraction x takes
PcsOf(x) ==
    CASE Branch(x) = "lc_query" -> {"lc_query"}
      [] Branch(x) = "lc_delete" -> {"lc_delete", "lc_delete_miss", "lc_archive"}
      [] Branch(x) = "lc_update" -> {"lc_update", "lc_update_miss", "lc_classify", "lc_apply"}
      [] Branch(x) = "lc_new" -> {"lc_new", "lc_link"}
      [] OTHER -> {}

\* a gateway, store or provider operation of the for loop is made in this step
OperationStep == pc \in BranchPcs /\ pc' # pc

\* the for loop moves to another extraction in this step
Advances == extIdx' # extIdx

\* C26: the extractions are processed one at a time in list order: every
\* operation is made for the extraction the loop is at, inside the branch of
\* that extraction; the loop moves to the next extraction of the list, and
\* only from its head, where no operation of the current one is left.
C26_OneExtractionAtATime ==
    [][/\ OperationStep
            => /\ extIdx \in DOMAIN geminiResponse.extractions
               /\ pc \in PcsOf(CurrentExtraction)
               /\ ~Advances
               /\ pc' \in PcsOf(CurrentExtraction) \cup {"lc_loop", "lc_catch"}
               /\ \A i \in DOMAIN opLog' : opLog'[i].call = extIdx
       /\ Advances
            => /\ pc = "lc_loop"
               /\ extIdx' = extIdx + 1
               /\ pc' \in PcsOf(geminiResponse.extractions[extIdx']) \cup {"lc_loop"}
               /\ opLog' = <<>>]_vars

\* the second extraction is at work after the page of the first was created
\* and its link posted
C26_Witness ==
    /\ Len(geminiResponse.extractions) = 2
    /\ geminiResponse.extractions[1].intent = "new_task"
    /\ extIdx = 2
    /\ pc = "lc_delete"
    /\ Len(pages) = 1
    /\ pages[1].threadTS = NewTs
    /\ posted = 2

(***************************************************************************)
(* Properties of the extractions of one message                            *)
(***************************************************************************)
\* the multi-extraction handleCapture has ended
CaptureEnded == handler = "handleCapture" /\ pc = "done"

\* the call made in this step threw: a store call that is logged as failed
\* (searchTasks catches its own failures), or a sendMessage that posted nothing
Throws ==
    \/ opLog' # opLog /\ ~opLog'[Len(opLog')].ok /\ opLog'[Len(opLog')].op # "search"
    \/ pc \in {"lc_update_miss", "lc_link"} /\ posted' = posted

\* C27 as stated: every extraction of the message is processed, whatever the
\* outcome of the other extractions was.
C27_EveryExtractionProcessed ==
    CaptureEnded => extIdx = Len(geminiResponse.extractions)

\* C27, what the code does: an extraction that succeeds or whose lookup finds
\* nothing is followed by the next one; a store call or sendMessage that throws
\* takes the handler to its one catch block, and the extractions behind it are
\* never processed.
C27_FailureEndsTheLoop ==
    /\ [](CaptureEnded => (extIdx = Len(geminiResponse.extractions) \/ Fatal))
    /\ [][OperationStep => (pc' = "lc_catch" <=> Throws)]_vars
    /\ [][pc = "lc_catch" => (pc' = "done" /\ extIdx' = extIdx)]_vars

\* the store call of the first of two extractions failed, the failure was
\* reported and the second extraction was never looked at
C27_Witness ==
    /\ CaptureEnded
    /\ Len(geminiResponse.extractions) = 2
    /\ geminiResponse.extractions[2].intent = "new_task"
    /\ extIdx = 1
    /\ failureMsgs = 1
    /\ pages = <<>>

(***************************************************************************)
(* Properties of messages processed concurrently                           *)
(***************************************************************************)
InFlight == svcCall.op = "messages"

\* every status message was edited by no invocation but the one that posted
\* it, and the invocations hold the ids of different messages, each its own
OwnStatusMessage ==
    /\ \A ts \in DOMAIN Chan.editor : Chan.editor[ts] \in {0, Chan.poster[ts]}
    /\ \A m \in Messages :
        Loc(m).ts # NoTs => Loc(m).ts \in DOMAIN Chan.poster /\ Chan.poster[Loc(m).ts] = m

\* no invocation was handed a cached value that another invocation stored
OwnCache == \A m \in Messages : Loc(m).cacheFrom \in {0, m}

\* a step of one invocation leaves the local variables of the others alone
LocalsArePrivate ==
    (InFlight /\ svcCall'.op = "messages")
        => \A m, n \in Messages : (m # n /\ svcCall'.of[m] # Loc(m)) => svcCall'.of[n] = Loc(n)

\* the turns and the pending results of an invocation are those of its own
\* calls: one turn more than rounds started, at most one result pending
OwnConversation ==
    \A m \in Messages :
        /\ Loc(m).at \in {"loop", "final"} => Loc(m).turns = Loc(m).callCount + 1
        /\ Len(Loc(m).functionResponses) <= 1
        /\ Loc(m).at = "send" => /\ Len(Loc(m).functionResponses) = 1
                                 /\ Loc(m).functionResponses[1].name = Loc(m).response

\* C28 as stated: nothing written while one message is processed (turns,
\* pending results, status-message id, cached values) is read or overwritten
\* while another message is processed.
C28_NothingShared == InFlight => (OwnStatusMessage /\ OwnConversation /\ OwnCache)

\* C28, amended: the turns, the pending results and the status-message id are
\* private to the invocation; the identifier cached in the NotionService is
\* shared: an invocation may be handed the identifier another one stored, and
\* then calls databases.retrieve no more.
C28_OnlyStoreAndCacheShared ==
    /\ [](InFlight => /\ OwnStatusMessage
                      /\ OwnConversation
                      /\ \A m \in Messages :
                            Loc(m).cacheFrom # 0
                                => dataSourceId = DATA_SOURCE /\ Chan.cachedBy # 0)
    /\ [][LocalsArePrivate]_vars

\* while message 1 is still being processed, message 2 is about to create its
\* page with the identifier that message 1 stored, without a retrieve of its own
C28_Witness ==
    /\ InFlight
    /\ Loc(1).at \notin {"entry", "done"}
    /\ Loc(2).at = "create"
    /\ Loc(2).cacheFrom = 1
    /\ Loc(2).retrieves = 0
    /\ Loc(1).ts # Loc(2).ts

(***************************************************************************)
(* Properties of the order of the calls of one message                     *)
(***************************************************************************)
\* the order of the statements of the handlers; the head of the while loop
\* closes a round, so that it comes after the statements of the round
Stage(at) ==
    CASE at = "idle" -> 0 [] at = "routed" -> 1
      [] at = "hc_entry" -> 2 [] at = "hc_thinking" -> 3 [] at = "hc_start" -> 4
      [] at = "hc_notify" -> 5 [] at = "hc_exec" -> 6 [] at = "hc_archive" -> 7
      [] at = "hc_send" -> 8 [] at = "hc_loop" -> 9 [] at = "hc_final" -> 10
      [] at = "hc_catch" -> 11
      [] at = "tu_entry" -> 2 [] at = "tu_notfound" -> 3 [] at = "tu_nosig" -> 4
      [] at = "tu_analyzing" -> 5 [] at = "tu_classify" -> 6 [] at = "tu_apply" -> 7
      [] at = "tu_confirm" -> 8 [] at = "tu_catch" -> 11
      [] at = "done" -> 12

\* the part of a round: its batch, the test of the while loop after the batch,
\* what comes after the loop
Part(at) ==
    IF at = "hc_loop" THEN 1
    ELSE IF at \in {"hc_final", "hc_catch", "tu_catch", "done"} THEN 2
    ELSE 0

\* where the handler is: the round of the while loop, the part of the round,
\* the position in the batch, the statement, the position in the list of
\* records to archive
Position == <<callCount, Part(pc), callIdx, Stage(pc), archIdx>>

\* a comes before b
Before(a, b) == \E i \in 1..5 : a[i] < b[i] /\ \A j \in 1..(i - 1) : a[j] = b[j]

\* the call made in this step failed
CallFails ==
    \/ pc \in {"hc_start", "hc_send"} /\ pc' = "hc_catch"
    \/ opLog' # opLog /\ opLog' # <<>> /\ ~opLog'[Len(opLog')].ok

\* C29: no provider call and no store call is made twice at the same place:
\* every step, the step of a failed call included, takes the handler to a
\* later statement, a later call of the batch or a later round, and the rounds
\* are bounded by MAX_CALLS; after a failed call the handler answers the call
\* with an error, goes on without a result or enters its catch block.
C29_NoCallRepeated ==
    /\ [][Before(Position, Position')]_vars
    /\ [](callCount <= MAX_CALLS)
    /\ [][CallFails => pc' \in {"hc_catch", "tu_catch", "hc_notify", "hc_send", "hc_archive"}]_vars

\* the first call of a batch failed in the store, and the handler is at the
\* second call
C29_Witness ==
    /\ handler = "handleCapture"
    /\ pc = "hc_notify"
    /\ callIdx = 2
    /\ opLog # <<>>
    /\ opLog[1].op = "create"
    /\ ~opLog[1].ok

(***************************************************************************)
(* Properties of GeminiService.analyzeThought on texts of several items    *)
(***************************************************************************)
\* the number of line-separated items of a text
RECURSIVE Items(_)
Items(text) ==
    IF text = <<>> THEN 0
    ELSE IF Len(text) = 1 THEN 1
    ELSE (IF Head(text) = "\n" THEN 1 ELSE 0) + Items(Tail(text))

\* the provider's answer is one JSON object and nothing else, bare or inside
\* a json fence
AnswersObject(t, o) ==
    \/ t = <<Tok("object", o)>>
    \/ t = <<Tok("jsonfence", NoAnObj), Tok("object", o), Tok("fence", NoAnObj)>>

\* C30: for a text of N line-separated items, analyzeThought returns exactly N
\* extractions, each with a single intent of the four.
C30_OneExtractionPerItem ==
    svcCall.op = "analyzeThought" =>
        /\ Len(svcResult.extractions) = Items(svcCall.text)
        /\ \A i \in DOMAIN svcResult.extractions : WellFormed(svcResult.extractions[i])

\* C30, what the code does: the text's items are never counted.  When the
\* provider answers with one JSON object, its extractions list is returned as
\* it is, entry by entry in the same order (no list: the empty list); when the
\* local fallback is returned, it is one extraction whatever the number of
\* items of the text.
C30_ProviderListPassedThrough ==
    svcCall.op = "analyzeThought" =>
        /\ \A o \in AnalysisObjects :
              (svcCall.providerOk /\ AnswersObject(svcCall.response, o)) =>
                /\ ~svcResult.fallback
                /\ Len(svcResult.extractions) = (IF o.hasExtractions THEN Len(o.extractions) ELSE 0)
                /\ \A i \in DOMAIN svcResult.extractions :
                      svcResult.extractions[i] = o.extractions[i]
        /\ svcResult.fallback => Len(svcResult.extractions) = 1

\* a text of two items, for which the provider answered with a list of two
\* extractions, and analyzeThought returned the two in the provider's order
C30_Witness ==
    /\ svcCall.op = "analyzeThought"
    /\ Items(svcCall.text) = 2
    /\ svcCall.providerOk
    /\ \E o \in AnalysisObjects :
        /\ AnswersObject(svcCall.response, o)
        /\ Len(o.extractions) = 2
        /\ o.extractions[1] # o.extractions[2]
        /\ svcResult.extractions = o.extractions
    /\ ~svcResult.fallback

(***************************************************************************)
(* Properties of handleCapture: the progress update of a tool call         *)
(***************************************************************************)
\* the handler is inside the switch of the current tool call
InSwitch == pc \in {"hc_exec", "hc_archive"}

\* a step that makes a store call for a tool call
StoreStep == opLog' # opLog /\ opLog' # <<>>

\* C31: while a tool call is executed, the latest updateMessage call is the
\* progress update naming that call's tool; every store operation of a tool
\* call starts after that update was invoked, and the update is the step right
\* before the switch of the call is entered.
C31_ProgressUpdateFirst ==
    /\ [](InSwitch => updateText = Executing(CurrentCall.name))
    /\ [][StoreStep =>
            /\ InSwitch
            /\ opLog'[Len(opLog')].call = CurrentIndex
            /\ updateText = Executing(CurrentCall.name)]_vars
    /\ [][(pc # "hc_exec" /\ pc' = "hc_exec") =>
            /\ pc = "hc_notify"
            /\ opLog' = opLog
            /\ updateText' = Executing(functionCalls'[callIdx'].name)]_vars

\* the second call of a batch is about to run its store operation: the first
\* call, of another tool, made its own, and the latest update names the second
C31_Witness ==
    /\ pc = "hc_exec"
    /\ callIdx = 2
    /\ functionCalls[1].name # functionCalls[2].name
    /\ functionCalls[2].name \in ToolNames
    /\ \E i \in DOMAIN opLog : opLog[i].call = 1
    /\ updateText = Executing(functionCalls[2].name)
    /\ ~finalDelivered

(***************************************************************************)
(* Properties of the serverless event handler                              *)
(***************************************************************************)
HandlerLoaded == svcCall.op = "handler"

\* C32: initApp is executed at most once in the process instance.
C32_InitAppAtMostOnce == HandlerLoaded => svcResult.initRuns <= 1

\* C32, what the code does: a request runs initApp exactly when it is a POST
\* without the retry header that finds initialized false, which stays false
\* until an initApp has returned and is never reset; so initApp runs once more
\* for every run that failed and for every run started while another one was
\* awaiting slackService.start(), and never after one has returned.
C32_InitAppWhileNotInitialized ==
    /\ [](HandlerLoaded =>
            /\ svcResult.initRuns <= 1 + svcResult.failed + svcResult.overlapped
            /\ svcResult.registered <= svcResult.initRuns
            /\ (svcResult.failed = 0 /\ svcResult.overlapped = 0) => svcResult.initRuns <= 1)
    /\ [][(HandlerLoaded /\ svcResult'.initRuns > svcResult.initRuns) =>
            /\ ~svcCall.initialized
            /\ svcResult'.initRuns = svcResult.initRuns + 1]_vars
    /\ [][(HandlerLoaded /\ svcCall.initialized) =>
            /\ svcCall'.initialized
            /\ svcResult'.initRuns = svcResult.initRuns]_vars

\* initApp ran three times: the first run failed, and the next two requests
\* both arrived before an initialization had finished; the listeners are
\* registered twice and an event was handled twice
C32_Witness ==
    /\ HandlerLoaded
    /\ svcResult.initRuns = 3
    /\ svcResult.failed = 1
    /\ svcResult.overlapped = 1
    /\ svcResult.registered = 2
    /\ svcCall.initialized
    /\ \E r \in Requests : svcResult.handled[r] = 2

\* request r carried the x-slack-retry-num header and the handler has returned
RetryAnswered(r) == HandlerLoaded /\ svcCall.at[r] = "done" /\ svcCall.retry[r]

\* the step in which the handler is called with a request carrying the header
RetryArrives(r) == HandlerLoaded /\ svcCall.at[r] = "idle" /\ svcCall'.retry[r]

\* C38: a request that carries the x-slack-retry-num header is answered with
\* status 200 and triggers neither initApp nor any event handler.
C38_RetryAnswered200 ==
    \A r \in Requests :
        RetryAnswered(r) =>
            /\ svcResult.status[r] = OK
            /\ ~svcResult.ranInit[r]
            /\ svcResult.handled[r] = 0

\* C38, amended: a POST request that carries the header is answered with
\* status 200, any other method with 405 whatever its headers; in both cases
\* the handler returns at once, and neither initApp nor a listener runs for
\* the request.
C38_RetryNeverProcessed ==
    /\ [](\A r \in Requests :
            RetryAnswered(r) =>
                /\ svcResult.status[r]
                     = (IF svcCall.method[r] = "POST" THEN OK ELSE METHOD_NOT_ALLOWED)
                /\ ~svcResult.ranInit[r]
                /\ svcResult.handled[r] = 0)
    /\ [][\A r \in Requests :
            RetryArrives(r) =>
                /\ svcCall'.at[r] = "done"
                /\ svcCall'.initialized = svcCall.initialized
                /\ svcResult'.initRuns = svcResult.initRuns
                /\ svcResult'.registered = svcResult.registered
                /\ svcResult'.handled = svcResult.handled]_vars

\* a POST retry reached a process instance that was not initialized and was
\* answered 200: initApp has not run and no listener is registered
C38_Witness ==
    /\ \E r \in Requests :
        /\ RetryAnswered(r)
        /\ svcCall.method[r] = "POST"
        /\ svcResult.status[r] = OK
    /\ ~svcCall.initialized
    /\ svcResult.initRuns = 0
    /\ svcResult.registered = 0

(***************************************************************************)
(* Properties of the message listener of initApp                           *)
(***************************************************************************)
\* a message event of a bot, or the edit of a message
FromBotOrEdit(e) ==
    /\ e.listener = "message"
    /\ e.bot_id \/ e.subtype = "bot_message" \/ e.subtype = "message_changed"

\* C39: a message event that has a bot_id, or whose subtype is bot_message or
\* message_changed, is routed to no handler: the listener returns, and neither
\* handleCapture nor handleThreadUpdate is entered, no service is called and
\* the store is left as it was.
C39_BotMessagesIgnored ==
    /\ []((pc = "routed" /\ FromBotOrEdit(inbound)) => handler = "none")
    /\ [][(pc = "routed" /\ FromBotOrEdit(inbound)) =>
            /\ pc' = "done"
            /\ outcome' = "ignored"
            /\ UNCHANGED <<pages, flagVars, msgVars>>]_vars

\* the text message of a bot in a direct-message channel, inside a thread,
\* has reached the message listener, which calls no handler for it
C39_Witness ==
    /\ pc = "routed"
    /\ inbound.listener = "message"
    /\ inbound.bot_id
    /\ inbound.subtype = ""
    /\ inbound.hasText
    /\ ~inbound.trigger
    /\ inbound.channel_type = "im"
    /\ inbound.thread_ts # NoTs
    /\ handler = "none"

(***************************************************************************)
(* Properties of the thread key of the records                             *)
(***************************************************************************)
\* the records that carry thread key k
Carrying(k) == {i \in DOMAIN pages : pages[i].threadTS = k}

\* a step that adds a record to the store
RecordAdded == Len(pages') > Len(pages)

\* C33: no two records of the store carry the same thread key.
C33_ThreadKeyUnique ==
    svcCall.op = "messages" =>
        \A i \in DOMAIN pages, j \in DOMAIN pages :
            i # j => pages[i].threadTS # pages[j].threadTS

\* C33, what the code does: every record is created with the ts of the message
\* whose create_task call made it, so the records of different messages have
\* different keys and a message has one record with its key for each of its
\* create_task calls that succeeded, as many as it made; findPageByThreadTS
\* answers with the first of the records that carry the key.
C33_OneKeyPerMessage ==
    /\ [](svcCall.op = "messages" =>
            /\ \A i \in DOMAIN pages : \E m \in Messages : pages[i].threadTS = EventTs(m)
            /\ \A m \in Messages :
                /\ Cardinality(Carrying(EventTs(m))) <= Loc(m).callCount
                /\ Carrying(EventTs(m)) # {} =>
                    /\ QueryByThreadTS(pages, EventTs(m)) \in Carrying(EventTs(m))
                    /\ \A i \in Carrying(EventTs(m)) : QueryByThreadTS(pages, EventTs(m)) <= i)
    /\ [][(svcCall.op = "messages" /\ RecordAdded) =>
            /\ Len(pages') = Len(pages) + 1
            /\ \A i \in DOMAIN pages : pages'[i] = pages[i]
            /\ \E m \in Messages :
                /\ Loc(m).at = "create"
                /\ svcCall'.of[m].at = "send"
                /\ pages'[Len(pages')].threadTS = EventTs(m)]_vars

\* one message asked for create_task in two turns: both records carry its
\* key, and a reply in its thread is resolved to the first of them only
C33_Witness ==
    /\ svcCall.op = "messages"
    /\ Len(pages) = 2
    /\ pages[1].threadTS = EventTs(1)
    /\ pages[2].threadTS = EventTs(1)
    /\ Loc(1).at = "done"
    /\ Loc(1).callCount = 2
    /\ QueryByThreadTS(pages, EventTs(1)) = 1

(***************************************************************************)
(* Properties of concurrent NotionService.appendNote calls                 *)
(***************************************************************************)
\* every appendNote call has returned or thrown
AllCompleted == svcCall.op = "appendNote" /\ \A c \in Appenders : svcCall.at[c] \in {"returned", "thrown"}

\* the summary of the record holds the note of call c
Holds(c) == \E i \in DOMAIN pages[THE_RECORD].summary : pages[THE_RECORD].summary[i] = NoteOf(c)

\* call d read the record before call c wrote it, and wrote it after c did
Overwrote(d, c) ==
    /\ svcCall.at[d] = "returned"
    /\ svcResult.writeAt[d] > svcResult.writeAt[c]
    /\ svcResult.readAt[d] < svcResult.writeAt[c]

\* C34: once all appendNote calls on the record have completed, its summary
\* holds the note of every call that returned.
C34_NoNoteLost ==
    AllCompleted => \A c \in Appenders : svcCall.at[c] = "returned" => Holds(c)

\* C34, amended: the summary holds the note of every returned call unless a
\* call that had read the record before that note was written wrote it
\* afterwards; so no note is lost when the calls do not overlap, and the note
\* written last is always there.
C34_LostOnlyByStaleWrite ==
    svcCall.op = "appendNote" =>
        \A c \in Appenders :
            svcCall.at[c] = "returned" =>
                \/ Holds(c)
                \/ \E d \in Appenders \ {c} : Overwrote(d, c)

\* three calls returned one after the other, none overlapping another: the
\* summary holds the three notes behind the text it had
C34_Witness ==
    /\ AllCompleted
    /\ \A c \in Appenders : svcCall.at[c] = "returned" /\ Holds(c)
    /\ \A c \in Appenders : \A d \in Appenders \ {c} : ~Overwrote(d, c)
    /\ pages[THE_RECORD].summary[1] = "s"
    /\ Len(pages[THE_RECORD].summary) = 1 + 2 * MaxAppenders

(***************************************************************************)
(* Properties of archive_tasks: the records a searchTerm selects           *)
(***************************************************************************)
\* an archive_tasks call is being executed or has been answered
ArchiveCalled == functionCalls # <<>> /\ functionCalls[1].name = "archive_tasks"

SearchTerm == functionCalls[1].str

\* the title or the assignee of the record contains the term, or its category
\* is the term
TermMatches(page, term) ==
    Contains(page.title, term) \/ Contains(page.assignee, term) \/ page.category = term

\* the term is empty or one of the words that stand for every open record
BroadTerm(term) == ToLowerCase(term) \in {EMPTY, ALL, EVERYTHING, EVERYONE}

\* C35: archive_tasks archives only records whose title, assignee or category
\* matches its searchTerm, and none when the searchTerm is empty or absent.
C35_ArchivesOnlyMatches ==
    ArchiveCalled =>
        /\ \A i \in Archived : SearchTerm # EMPTY /\ TermMatches(pages[i], SearchTerm)
        /\ SearchTerm = EMPTY => Archived = {}

\* C35, what the code does: for a term that is not a broad one only records
\* matching it are archived; for an empty or absent term, and for "all",
\* "everything" and "everyone", the records archived are records whose status
\* is not Done, matching or not, and a call that succeeds has archived the
\* first PAGE_SIZE of them.
C35_BroadTermArchivesOpenRecords ==
    ArchiveCalled =>
        /\ ~BroadTerm(SearchTerm) => \A i \in Archived : TermMatches(pages[i], SearchTerm)
        /\ BroadTerm(SearchTerm) => \A i \in Archived : pages[i].status # "Done"
        /\ (BroadTerm(SearchTerm) /\ ArchiveTasksSucceeded /\ opLog[1].ok) =>
                /\ Cardinality(Archived) = Min({Len(pages), PAGE_SIZE})
                /\ ReportedCount = Cardinality(Archived)

\* archive_tasks with an empty searchTerm has succeeded on a store of three
\* open records: all three are archived
C35_Witness ==
    /\ ArchiveCalled
    /\ SearchTerm = EMPTY
    /\ ArchiveTasksSucceeded
    /\ Len(pages) = 3
    /\ Archived = {1, 2, 3}
    /\ ReportedCount = 3

(***************************************************************************)
(* Properties of handleThreadUpdate: the record a reply changes            *)
(***************************************************************************)
\* handleThreadUpdate is past its store call
AfterApply == {"tu_confirm", "tu_catch", "done"}

\* the handler is processing a thread reply
InThreadUpdate == handler = "handleThreadUpdate" /\ pc \notin {"idle", "routed"}

\* the first record that carries the thread key of the reply
FirstOfThread(i) ==
    /\ i \in DOMAIN pages
    /\ pages[i].threadTS = event.thread_ts
    /\ \A j \in DOMAIN pages : pages[j].threadTS = event.thread_ts => i <= j

\* C36: while a thread reply is processed the store changes in one step at
\* most, the store call of the branch taken; that step changes the record
\* findPageByThreadTS returned for the reply's thread key and no other
\* record, and the number of records stays the same.
C36_OneMutationOnTheTask ==
    /\ [][(InThreadUpdate /\ pages' # pages) =>
            /\ pc = "tu_apply"
            /\ pc' = "tu_confirm"
            /\ FirstOfThread(task)
            /\ DOMAIN pages' = DOMAIN pages
            /\ \A i \in DOMAIN pages : i # task => pages'[i] = pages[i]]_vars
    /\ [][(InThreadUpdate /\ pc \in AfterApply) =>
            /\ pc' \in AfterApply
            /\ pages' = pages]_vars
    /\ [][(InThreadUpdate /\ pc = "tu_apply") => pc' \in AfterApply]_vars

\* a reply was applied in a store of two records of the same thread: the
\* first one is marked Done, the second is as it was
C36_Witness ==
    /\ InThreadUpdate
    /\ pc = "tu_confirm"
    /\ Len(pages) = 2
    /\ pages[1].threadTS = event.thread_ts
    /\ pages[2].threadTS = event.thread_ts
    /\ task = 1
    /\ pages[1].status = "Done"
    /\ pages[2].status = "Todo"

(***************************************************************************)
(* Properties of the confirmations of handleThreadUpdate and of the        *)
(* update_task and delete_task branches of handleCapture                   *)
(***************************************************************************)
\* the latest entry of opLog after the step
LastLogged == opLog'[Len(opLog')]

\* the step makes a mutating store call that throws
MutationFails ==
    /\ pc \in {"lc_apply", "lc_archive"}
    /\ opLog' # opLog
    /\ ~LastLogged.ok

\* the decision asks for a store call
Mutates(r) ==
    r.action \in {"completed", "in_progress", "detail", "deleted"}
    \/ (r.action = "rescheduled" /\ r.due_date)

\* the update_task branch has no case for "deleted"
LegacyMutates(r) == Mutates(r) /\ r.action # "deleted"

\* C37: a success confirmation is issued only by a step whose store operation
\* completed without error (update_task: the mutator call of the decision;
\* delete_task: archivePage of every record found; thread update: the mutator
\* call of the decision); a failing store operation leads to the catch block
\* without a confirmation, and the catch block sends the failure message and
\* ends the handler.
C37_ConfirmationAfterSuccess ==
    /\ [][(pc = "lc_apply" /\ pc' = "lc_loop" /\ LegacyMutates(updateResult)) =>
            /\ opLog' # opLog
            /\ LastLogged.ok
            /\ pages' = LegacyApplyDecision(pages, task, updateResult)
            /\ updateText' = "Updated"]_vars
    /\ [][(pc = "lc_archive" /\ pc' = "lc_loop") =>
            /\ updateText' = "Successfully removed"
            /\ \A k \in DOMAIN tasksToArchive : pages[tasksToArchive[k]].archived
            /\ \A i \in DOMAIN opLog :
                  (opLog[i].call = extIdx /\ opLog[i].op = "archive") => opLog[i].ok]_vars
    /\ [][MutationFails =>
            /\ pc' = "lc_catch"
            /\ pages' = pages
            /\ (updateText' \notin {"Updated", "Successfully removed"}
                \/ updateText' = updateText)]_vars
    /\ [][(pc = "tu_apply" /\ pc' = "tu_confirm" /\ Mutates(updateResult)) =>
            pages' = ApplyDecision(pages, task, updateResult)]_vars
    /\ [][(pc = "tu_apply" /\ pc' # "tu_confirm") =>
            /\ pages' = pages
            /\ posted' = posted
            /\ (pc' = "tu_catch" \/ ~Mutates(updateResult))]_vars
    /\ [][(pc' = "tu_confirm") => (pc = "tu_apply")]_vars
    /\ [][(pc = "lc_catch" \/ pc = "tu_catch") =>
            /\ pc' = "done"
            /\ gatewayCalled'
            /\ updateText' = updateText
            /\ pages' = pages
            /\ ((failureMsgs' = failureMsgs + 1 /\ posted' = posted + 1)
                \/ (outcome' = "thrown" /\ posted' = posted /\ failureMsgs' = failureMsgs))]_vars

\* the status update of an update_task extraction failed: the handler has
\* ended with the failure message and the status message never said Updated
C37_Witness ==
    /\ pc = "done"
    /\ handler = "handleCapture"
    /\ opLog # <<>>
    /\ opLog[Len(opLog)].op = "completed"
    /\ ~opLog[Len(opLog)].ok
    /\ failureMsgs = 1
    /\ updateText # "Updated"
    /\ pages[task].status = "Todo"

====
